---- MODULE Spec2Model ----
(***************************************************************************)
(* A model of sc_mask_gen.py: the three mask generators SC, ASC and        *)
(* ModelGen.  Each forward() is a state machine whose steps are the loops  *)
(* of the method: segmentation, the scoring of every sentence, sentence    *)
(* selection, the probe rounds and the assembly of the masked documents.   *)
(*                                                                         *)
(* Conventions.  Python lists are sequences; a Python index p is the TLA+  *)
(* index p + 1, and every position, document id and sentence id stored in  *)
(* the state keeps its Python (0-based) value.  Probabilities are tenths   *)
(* (9 is 0.9), top_sen_rate and mask_rate are fractions <<num, den>>, the  *)
(* draws of rng.random() are hundredths.  The classifier is a black box    *)
(* that is a function of its input ids: `model` holds the answers it has   *)
(* given so far, and a new input gets any answer of the score set.         *)
(***************************************************************************)
EXTENDS Integers, Sequences, FiniteSets, TLC

VARIABLES
    variant,            \* "SC" | "ASC" | "ModelGen": the class whose forward() runs
    pc,                 \* position in forward()
    error,              \* the exception that ended the run, "none" otherwise
    doc_num,            \* len(data)
    all_label_ids,      \* SC: ground-truth label id per document
    top_sen_rate,       \* self.top_sen_rate, <<num, den>>
    mask_rate,          \* self.mask_rate, <<num, den>>
    threshold,          \* self.threshold, tenths
    max_seq_length,     \* self.max_seq_length
    dupe_factor,        \* forward()'s dupe_factor
    rng,                \* state of the injected random source
    model,              \* the classifier: input ids -> its answer
    eval_features,      \* the features the last feature conversion built
    first_call,         \* what the first call of forward() retained, <<>> during it
    probe_scored,       \* the number of prefixes the probe loop has had scored
    probe_log,          \* per round of the probe: the prefixes scored and their scores
    sentences,          \* SC, ModelGen: token lists; ASC: records text/aspect/label
    sen_doc_ids,        \* document id of each sentence
    texts,              \* ASC: tokenized text per document
    sens_preds,         \* predicted label per sentence
    sens_pred_scores,   \* probability vector per sentence
    preds,              \* ModelGen: per sentence, (class, logit) per token
    doc_id,             \* loop variable of the document loops
    i,                  \* loop variable over sentences
    right_sens,         \* retained sentences
    right_scores,       \* ground-truth probability of each retained sentence
    right_sen_doc_ids,  \* document id of each retained sentence
    right_sen_doc_poses,\* index in sentences of each retained sentence
    masked_sens,        \* the prefixes in the batch
    masked_item_infos,  \* SC: info of each prefix in the batch
    mask_sens_scores,   \* probability vectors of the batch scored last
    scored_batch,       \* ids (sen_right_id) of the sentences of the batch scored last
    mask_poses_d,       \* SC: sen_doc_pos -> list of salient positions
    mask_poses_L,       \* ASC: set of salient positions per document
    mask_pos,           \* the position under test
    rep,                \* replica counter of the assembly loop
    all_documents,      \* the groups built so far
    draw_log            \* the draws each create_mask entry was decided by

vars == <<variant, pc, error, doc_num, all_label_ids, top_sen_rate, mask_rate,
          threshold, max_seq_length, dupe_factor, rng, model, sentences,
          sen_doc_ids, texts, sens_preds, sens_pred_scores, preds, doc_id, i,
          right_sens, right_scores, right_sen_doc_ids, right_sen_doc_poses,
          masked_sens, masked_item_infos, mask_sens_scores, scored_batch,
          mask_poses_d, mask_poses_L, mask_pos, rep, all_documents, draw_log,
          eval_features, first_call, probe_scored,
          probe_log>>

---------------------------------------------------------------------------
(* Bounds of the model *)

MaxDocs == 2
MaxSens == 2
MaxLen == 2
MaxTokens == 3
MaxDupe == 2
MaxConvLen == 4
MaxConvSeq == 5
MaxProbeLen == 3

(* The inputs are drawn from these sets *)

Tokens == {"the", "food"}
StopWords == {"the"}
Labels == {0, 1}
ScoreSet == {4, 6, 9}
Thresholds == {2}
TopSenRates == {<<1, 2>>, <<1, 1>>}
SeqLengthsSC == {3, 4}
SeqLengthsASC == {5, 6}
SeqLengthsMG == {3, 4}
MaskRates == {<<1, 2>>, <<1, 1>>}
Classes == {0, 1}
LogitSet == {1, 2}
TopSenRateASC == <<1, 2>>
LabelList == <<"positive", "negative">>
Polarities == {"positive", "negative", "conflict"}
Aspects == {<<"food">>, <<"the">>}
RngCycle == <<79, 80, 49, 80, 50, 49, 80, 80, 80>>
Vocab == <<"the", "food">>
Seeds == {0, 3}

---------------------------------------------------------------------------
(* Python helpers *)

Min(a, b) == IF a < b THEN a ELSE b
Max(a, b) == IF a > b THEN a ELSE b
Range(s) == {s[k] : k \in 1..Len(s)}
\* s[0:n]
Take(s, n) == SubSeq(s, 1, Min(Max(n, 0), Len(s)))
\* [x] * n, empty when n <= 0
Repeat(x, n) == [k \in 1..Max(n, 0) |-> x]
\* s.pop(): the list without its last element (the caller checks it is not empty)
Pop(s) == SubSeq(s, 1, Len(s) - 1)
\* int(rate * n) for a rate num/den
IntTimes(rate, n) == (rate[1] * n) \div rate[2]

RECURSIVE SumLen(_)
SumLen(ss) == IF ss = <<>> THEN 0 ELSE Len(Head(ss)) + SumLen(Tail(ss))

\* the token lists the tokenizer can return, up to n tokens
TokenLists(n) == UNION {[1..k -> Tokens] : k \in 0..n}

---------------------------------------------------------------------------
(* The classifier as forward() sees it *)

\* the softmax vector of a two-label classifier whose first probability is p
Probs(p) == <<p, 10 - p>>
\* np.argmax: the first index of the maximum
ArgMax(v) == IF v[1] >= v[2] THEN 0 ELSE 1
\* v[label]
ScoreOf(v, label) == v[label + 1]

SC_convert_NoTruncate(tokens_a) ==
    LET tokens == <<"[CLS]">> \o tokens_a \o <<"[SEP]">>
        n == max_seq_length - Len(tokens)
    IN  [input_ids   |-> tokens \o Repeat("[PAD]", n),
         input_mask  |-> Repeat(1, Len(tokens)) \o Repeat(0, n),
         segment_ids |-> Repeat(0, Len(tokens)) \o Repeat(0, n)]

\* SC.convert_examples_to_features for one example
SC_convert_examples_to_features(tokens_a) ==
    LET ta == IF Len(tokens_a) > max_seq_length - 2
              THEN Take(tokens_a, max_seq_length - 2) ELSE tokens_a
        tokens == <<"[CLS]">> \o ta \o <<"[SEP]">>
        n == max_seq_length - Len(tokens)
    IN  [input_ids   |-> tokens \o Repeat("[PAD]", n),
         input_mask  |-> Repeat(1, Len(tokens)) \o Repeat(0, n),
         segment_ids |-> Repeat(0, Len(tokens)) \o Repeat(0, n)]

\* the three assertions that follow the padding
FeatureAsserts(f) ==
    /\ Len(f.input_ids) = max_seq_length
    /\ Len(f.input_mask) = max_seq_length
    /\ Len(f.segment_ids) = max_seq_length

\* the for loop of convert_examples_to_features: the features appended
\* before an assertion fails, all of them if none does
Built(features) ==
    LET bad == {k \in 1..Len(features) : ~FeatureAsserts(features[k])}
    IN  IF bad = {} THEN features
        ELSE Take(features, (CHOOSE k \in bad : \A m \in bad : k <= m) - 1)

\* the inputs of a batch the classifier has not answered yet
NewInputs(features) == {features[k].input_ids : k \in 1..Len(features)} \ DOMAIN model

\* SC.evaluate on a batch that is not empty: the classifier's table once every
\* new input is answered by ext, and the vectors it returns
Answers(ext) == [x \in (DOMAIN model) \cup (DOMAIN ext) |->
                    IF x \in DOMAIN model THEN model[x] ELSE ext[x]]
EvalScores(features, table) ==
    [k \in 1..Len(features) |-> Probs(table[features[k].input_ids])]
EvalPreds(scores) == [k \in 1..Len(scores) |-> ArgMax(scores[k])]

---------------------------------------------------------------------------
(* SC.forward *)

Halt(exc) == /\ pc' = "error"
             /\ error' = exc

\* the state before forward() starts, for the class cls
InitCommon(cls) ==
    /\ variant = cls
    /\ pc = "segment"
    /\ error = "none"
    /\ doc_num \in 0..MaxDocs
    /\ threshold \in Thresholds
    /\ dupe_factor \in 1..MaxDupe
    /\ rng \in Seeds
    /\ model = <<>>
    /\ eval_features = <<>>
    /\ first_call = <<>>
    /\ probe_scored = 0
    /\ probe_log = <<>>
    /\ sentences = <<>>
    /\ sen_doc_ids = <<>>
    /\ texts = <<>>
    /\ sens_preds = <<>>
    /\ sens_pred_scores = <<>>
    /\ preds = <<>>
    /\ doc_id = 0
    /\ i = 0
    /\ right_sens = <<>>
    /\ right_scores = <<>>
    /\ right_sen_doc_ids = <<>>
    /\ right_sen_doc_poses = <<>>
    /\ masked_sens = <<>>
    /\ masked_item_infos = <<>>
    /\ mask_sens_scores = <<>>
    /\ scored_batch = <<>>
    /\ mask_poses_d = <<>>
    /\ mask_poses_L = <<>>
    /\ mask_pos = 0
    /\ rep = 0
    /\ all_documents = <<>>
    /\ draw_log = <<>>

InitSC ==
    /\ InitCommon("SC")
    /\ all_label_ids \in [1..doc_num -> Labels]
    /\ top_sen_rate \in TopSenRates
    /\ mask_rate = <<0, 1>>
    /\ max_seq_length \in SeqLengthsSC

\* lines 156-161: one document is segmented and its sentences are tokenized
SC_Segment ==
    /\ variant = "SC"
    /\ pc = "segment"
    /\ doc_id < doc_num
    /\ \E n \in 0..(MaxSens - Len(sentences)) :
         \E tL \in [1..n -> TokenLists(MaxLen)] :
            /\ SumLen(sentences) + SumLen(tL) <= MaxTokens
            /\ sentences' = sentences \o tL
            /\ sen_doc_ids' = sen_doc_ids \o Repeat(doc_id, n)
    /\ doc_id' = doc_id + 1
    /\ UNCHANGED <<variant, pc, error, doc_num, all_label_ids, top_sen_rate,
                   mask_rate, threshold, max_seq_length, dupe_factor, rng, model,
                   texts, sens_preds, sens_pred_scores, preds, i, right_sens,
                   right_scores, right_sen_doc_ids, right_sen_doc_poses,
                   masked_sens, masked_item_infos, mask_sens_scores, scored_batch,
                   mask_poses_d, mask_poses_L, mask_pos, rep, all_documents,
                   draw_log>>
    /\ UNCHANGED eval_features
    /\ UNCHANGED first_call
    /\ UNCHANGED probe_scored
    /\ UNCHANGED probe_log

\* line 164 (SC.evaluate, lines 78-105): every sentence is scored; with no
\* sentence at all preds stays empty and preds[0] raises
SC_EvaluateAll ==
    /\ variant = "SC"
    /\ pc = "segment"
    /\ doc_id = doc_num
    /\ LET features == [k \in 1..Len(sentences) |->
                           SC_convert_examples_to_features(sentences[k])]
       IN  IF \E k \in 1..Len(features) : ~FeatureAsserts(features[k])
           THEN /\ Halt("AssertionError")
                /\ UNCHANGED <<model, sens_preds, sens_pred_scores, doc_id, i>>
           ELSE IF features = <<>>
           THEN /\ Halt("IndexError")
                /\ UNCHANGED <<model, sens_preds, sens_pred_scores, doc_id, i>>
           ELSE \E ext \in [NewInputs(features) -> ScoreSet] :
                /\ model' = Answers(ext)
                /\ sens_pred_scores' = EvalScores(features, Answers(ext))
                /\ sens_preds' = EvalPreds(EvalScores(features, Answers(ext)))
                /\ pc' = "select"
                /\ doc_id' = 0
                /\ i' = 0
                /\ UNCHANGED error
    /\ UNCHANGED <<variant, doc_num, all_label_ids, top_sen_rate, mask_rate,
                   threshold, max_seq_length, dupe_factor, rng, sentences,
                   sen_doc_ids, texts, preds, right_sens, right_scores,
                   right_sen_doc_ids, right_sen_doc_poses, masked_sens,
                   masked_item_infos, mask_sens_scores, scored_batch,
                   mask_poses_d, mask_poses_L, mask_pos, rep, all_documents,
                   draw_log>>
    /\ eval_features' = Built([k \in 1..Len(sentences) |->
                                  SC_convert_examples_to_features(sentences[k])])
    /\ UNCHANGED first_call
    /\ UNCHANGED probe_scored
    /\ UNCHANGED probe_log

\* the while loop of lines 175-182 and 248-254: the index after the last
\* sentence of document d, starting at sentence j
RECURSIVE DocEnd(_, _)
DocEnd(j, d) ==
    IF j < Len(sen_doc_ids) /\ sen_doc_ids[j + 1] = d THEN DocEnd(j + 1, d) ELSE j

GroundTruth_First(d) == all_label_ids[1]

\* line 177: the ground truth of document d
GroundTruth(d) == all_label_ids[d + 1]

\* lines 174-182: the tuples of the sentences j .. e-1 of document d whose
\* predicted label is the ground truth
RECURSIVE DocTuples(_, _, _)
DocTuples(j, e, d) ==
    IF j >= e THEN <<>>
    ELSE LET sen_pred == sens_preds[j + 1]
             doc_ground_truth == GroundTruth(d)
         IN  (IF doc_ground_truth = sen_pred
              THEN << <<sentences[j + 1], d, j, sen_pred,
                        ScoreOf(sens_pred_scores[j + 1], doc_ground_truth)>> >>
              ELSE <<>>) \o DocTuples(j + 1, e, d)

InsertDesc_Strict(x, s) ==
    LET n == Cardinality({k \in 1..Len(s) : s[k][5] > x[5]})
    IN  SubSeq(s, 1, n) \o <<x>> \o SubSeq(s, n + 1, Len(s))

\* x put in a list that is sorted by descending score, behind every element
\* whose score is not smaller
InsertDesc(x, s) ==
    LET n == Cardinality({k \in 1..Len(s) : s[k][5] >= x[5]})
    IN  SubSeq(s, 1, n) \o <<x>> \o SubSeq(s, n + 1, Len(s))

\* line 185: sorted(ds, key=lambda x : x[-1], reverse=True), a stable sort
RECURSIVE SortedDesc(_)
SortedDesc(ds) ==
    IF ds = <<>> THEN <<>>
    ELSE InsertDesc(ds[Len(ds)], SortedDesc(Pop(ds)))

TopSens_Unsorted(ds) == Take(ds, Max(IntTimes(top_sen_rate, Len(ds)), 1))

\* line 186: the top sentences of the sorted list
TopSens(ds) == Take(SortedDesc(ds), Max(IntTimes(top_sen_rate, Len(ds)), 1))

Column(ts, c) == [k \in 1..Len(ts) |-> ts[k][c]]

\* lines 173-191: one round of the document loop
SC_SelectDoc ==
    /\ variant = "SC"
    /\ pc = "select"
    /\ doc_id < doc_num
    /\ LET e == DocEnd(i, doc_id)
           ds == DocTuples(i, e, doc_id)
           t == TopSens(ds)
       IN  /\ i' = e
           /\ IF Len(ds) = 0
              THEN UNCHANGED <<right_sens, right_scores, right_sen_doc_ids,
                               right_sen_doc_poses>>
              ELSE /\ right_sens' = right_sens \o Column(t, 1)
                   /\ right_sen_doc_ids' = right_sen_doc_ids \o Column(t, 2)
                   /\ right_sen_doc_poses' = right_sen_doc_poses \o Column(t, 3)
                   /\ right_scores' = right_scores \o Column(t, 5)
    /\ doc_id' = doc_id + 1
    /\ UNCHANGED <<variant, pc, error, doc_num, all_label_ids, top_sen_rate,
                   mask_rate, threshold, max_seq_length, dupe_factor, rng, model,
                   sentences, sen_doc_ids, texts, sens_preds, sens_pred_scores,
                   preds, masked_sens, masked_item_infos, mask_sens_scores,
                   scored_batch, mask_poses_d, mask_poses_L, mask_pos, rep,
                   all_documents, draw_log>>
    /\ UNCHANGED eval_features
    /\ UNCHANGED first_call
    /\ UNCHANGED probe_scored
    /\ UNCHANGED probe_log

\* lines 193-206: the batch starts with the first token of every retained sentence
SC_InitProbe ==
    /\ variant = "SC"
    /\ pc = "select"
    /\ doc_id = doc_num
    /\ masked_sens' = [k \in 1..Len(right_sens) |-> Take(right_sens[k], 1)]
    /\ masked_item_infos' =
         [k \in 1..Len(right_sens) |->
            [sen_doc_pos |-> right_sen_doc_poses[k],
             sen_right_id |-> k - 1,
             doc_ground_truth |->
                 all_label_ids[sen_doc_ids[right_sen_doc_poses[k] + 1] + 1]]]
    /\ mask_poses_d' = <<>>
    /\ mask_pos' = 0
    /\ pc' = "probe"
    /\ UNCHANGED <<variant, error, doc_num, all_label_ids, top_sen_rate, mask_rate,
                   threshold, max_seq_length, dupe_factor, rng, model, sentences,
                   sen_doc_ids, texts, sens_preds, sens_pred_scores, preds, doc_id,
                   i, right_sens, right_scores, right_sen_doc_ids,
                   right_sen_doc_poses, mask_sens_scores, scored_batch,
                   mask_poses_L, rep, all_documents, draw_log>>
    /\ UNCHANGED eval_features
    /\ UNCHANGED first_call
    /\ probe_scored' = 0
    /\ probe_log' = <<>>

Chosen_Le(origin_score, mask_sens_score, doc_ground_truth) ==
    origin_score - ScoreOf(mask_sens_score, doc_ground_truth) <= threshold

\* line 218: the test that chooses the position under test as a mask
Chosen(origin_score, mask_sens_score, doc_ground_truth) ==
    origin_score - ScoreOf(mask_sens_score, doc_ground_truth) < threshold

Record_Nothing(d, sen_doc_pos) == d
Record_Front(d, sen_doc_pos) ==
    IF sen_doc_pos \in DOMAIN d
    THEN [d EXCEPT ![sen_doc_pos] = <<mask_pos>> \o @]
    ELSE [x \in (DOMAIN d) \cup {sen_doc_pos} |->
             IF x = sen_doc_pos THEN <<mask_pos>> ELSE d[x]]

\* lines 220-223: mask_pos is recorded for the sentence at sen_doc_pos
Record(d, sen_doc_pos) ==
    IF sen_doc_pos \in DOMAIN d
    THEN [d EXCEPT ![sen_doc_pos] = Append(@, mask_pos)]
    ELSE [x \in (DOMAIN d) \cup {sen_doc_pos} |->
             IF x = sen_doc_pos THEN <<mask_pos>> ELSE d[x]]

\* lines 213-233: the body of the for loop for the k-th element of the batch.
\* st holds mask_poses_d, the two temp lists, the batch as rebound by lines
\* 232-233 and the exception raised so far
SC_ProbeBody(k, scores, st) ==
    LET masked_sen == masked_sens[k]
        masked_item_info == masked_item_infos[k]
        sen_doc_pos == masked_item_info.sen_doc_pos
        doc_ground_truth == masked_item_info.doc_ground_truth
        sen_right_id == masked_item_info.sen_right_id
        origin_score == right_scores[sen_right_id + 1]
        chosen == Chosen(origin_score, scores[k], doc_ground_truth)
        d == IF chosen THEN Record(st.d, sen_doc_pos) ELSE st.d
        popped == IF chosen THEN Pop(masked_sen) ELSE masked_sen
        more == mask_pos + 1 < Len(right_sens[sen_right_id + 1])
        grown == Append(popped, right_sens[sen_right_id + 1][mask_pos + 2])
    IN  IF chosen /\ masked_sen = <<>>
        THEN [st EXCEPT !.d = d, !.err = "IndexError"]
        ELSE [d |-> d,
              temp_sens |-> IF more THEN Append(st.temp_sens, grown) ELSE st.temp_sens,
              temp_infos |-> IF more THEN Append(st.temp_infos, masked_item_info)
                             ELSE st.temp_infos,
              sens |-> IF more THEN Append(st.temp_sens, grown) ELSE st.temp_sens,
              infos |-> IF more THEN Append(st.temp_infos, masked_item_info)
                        ELSE st.temp_infos,
              err |-> "none"]

\* the for loop of line 213 up to and with the k-th element
RECURSIVE SC_ProbeLoop(_, _)
SC_ProbeLoop(k, scores) ==
    IF k = 0
    THEN [d |-> mask_poses_d, temp_sens |-> <<>>, temp_infos |-> <<>>,
          sens |-> masked_sens, infos |-> masked_item_infos, err |-> "none"]
    ELSE LET st == SC_ProbeLoop(k - 1, scores)
         IN  IF st.err # "none" THEN st ELSE SC_ProbeBody(k, scores, st)

\* lines 208-234: one round of the while loop
SC_ProbeRound ==
    /\ variant = "SC"
    /\ pc = "probe"
    /\ Len(masked_sens) # 0
    /\ LET features == [k \in 1..Len(masked_sens) |->
                           SC_convert_examples_to_features(masked_sens[k])]
       IN  IF \E k \in 1..Len(features) : ~FeatureAsserts(features[k])
           THEN /\ Halt("AssertionError")
                /\ UNCHANGED <<model, masked_sens, masked_item_infos,
                               mask_sens_scores, scored_batch, mask_poses_d,
                               mask_pos>>
           ELSE \E ext \in [NewInputs(features) -> ScoreSet] :
                LET scores == EvalScores(features, Answers(ext))
                    st == SC_ProbeLoop(Len(masked_sens), scores)
                IN  /\ model' = Answers(ext)
                    /\ mask_sens_scores' = scores
                    /\ scored_batch' = [k \in 1..Len(masked_sens) |->
                                           masked_item_infos[k].sen_right_id]
                    /\ mask_poses_d' = st.d
                    /\ masked_sens' = st.sens
                    /\ masked_item_infos' = st.infos
                    /\ IF st.err # "none"
                       THEN /\ Halt(st.err)
                            /\ UNCHANGED mask_pos
                       ELSE /\ mask_pos' = mask_pos + 1
                            /\ UNCHANGED <<pc, error>>
    /\ UNCHANGED <<variant, doc_num, all_label_ids, top_sen_rate, mask_rate,
                   threshold, max_seq_length, dupe_factor, rng, sentences,
                   sen_doc_ids, texts, sens_preds, sens_pred_scores, preds, doc_id,
                   i, right_sens, right_scores, right_sen_doc_ids,
                   right_sen_doc_poses, mask_poses_L, rep, all_documents, draw_log>>
    /\ eval_features' = Built([k \in 1..Len(masked_sens) |->
                                  SC_convert_examples_to_features(masked_sens[k])])
    /\ UNCHANGED first_call
    /\ probe_scored' =
           IF \A k \in 1..Len(masked_sens) :
                  FeatureAsserts(SC_convert_examples_to_features(masked_sens[k]))
           THEN probe_scored + Len(masked_sens)
           ELSE probe_scored
    /\ probe_log' =
           IF \A k \in 1..Len(masked_sens) :
                  FeatureAsserts(SC_convert_examples_to_features(masked_sens[k]))
           THEN Append(probe_log,
                       [sens |-> masked_sens,
                        scores |-> [k \in 1..Len(masked_sens) |->
                                       ScoreOf(mask_sens_scores'[k],
                                               masked_item_infos[k].doc_ground_truth)]])
           ELSE probe_log

\* line 208 false, lines 240-245: the probe is over and the assembly starts
SC_ProbeExit ==
    /\ variant = "SC"
    /\ pc = "probe"
    /\ Len(masked_sens) = 0
    /\ pc' = "assemble"
    /\ all_documents' = <<>>
    /\ rep' = 0
    /\ doc_id' = 0
    /\ i' = 0
    /\ UNCHANGED <<variant, error, doc_num, all_label_ids, top_sen_rate, mask_rate,
                   threshold, max_seq_length, dupe_factor, rng, model, sentences,
                   sen_doc_ids, texts, sens_preds, sens_pred_scores, preds,
                   right_sens, right_scores, right_sen_doc_ids,
                   right_sen_doc_poses, masked_sens, masked_item_infos,
                   mask_sens_scores, scored_batch, mask_poses_d, mask_poses_L,
                   mask_pos, draw_log>>
    /\ UNCHANGED eval_features
    /\ UNCHANGED first_call
    /\ UNCHANGED probe_scored
    /\ UNCHANGED probe_log

---------------------------------------------------------------------------
(* The random source and create_mask *)

\* rng.random() in hundredths, rng.randint(0, n - 1), and the state after a draw
Random(r) == RngCycle[r + 1]
RandInt(r, n) == RngCycle[r + 1] % n
Advance_Stuck(r) == r

\* the state of the random source after one draw
Advance(r) == (r + 1) % Len(RngCycle)

IsStop_Never(token) == FALSE

\* nlp.vocab[token].is_stop
IsStop(token) == token \in StopWords

\* the dict {} and the dict with the keys "mask" and "label"
NoEntry == [mask |-> "", label |-> ""]
Entry(mask_token, label) == [mask |-> mask_token, label |-> label]

Branch_Le(first, second) ==
    IF first <= 80 THEN "mask" ELSE IF second < 50 THEN "keep" ELSE "random"

\* lines 116, 119: the branch taken when rng.random() returns first and, if
\* called again, second (in hundredths)
Branch(first, second) ==
    IF first < 80 THEN "mask" ELSE IF second < 50 THEN "keep" ELSE "random"

MaskToken_Le(sen, pos, r) ==
    IF Random(r) <= 80
    THEN [mask_token |-> "[MASK]", draws |-> <<Random(r)>>, rng |-> Advance(r)]
    ELSE IF Random(Advance(r)) < 50
    THEN [mask_token |-> sen[pos + 1],
          draws |-> <<Random(r), Random(Advance(r))>>,
          rng |-> Advance(Advance(r))]
    ELSE [mask_token |-> Vocab[RandInt(Advance(Advance(r)), Len(Vocab)) + 1],
          draws |-> <<Random(r), Random(Advance(r)),
                      RandInt(Advance(Advance(r)), Len(Vocab))>>,
          rng |-> Advance(Advance(Advance(r)))]

\* lines 116-122: the replacement of the token at sen[pos] and the state of
\* the random source after the draws
MaskToken(sen, pos, r) ==
    LET branch == Branch(Random(r), Random(Advance(r)))
    IN  IF branch = "mask"
        THEN [mask_token |-> "[MASK]", draws |-> <<Random(r)>>, rng |-> Advance(r)]
        ELSE IF branch = "keep"
        THEN [mask_token |-> sen[pos + 1],
              draws |-> <<Random(r), Random(Advance(r))>>,
              rng |-> Advance(Advance(r))]
        ELSE [mask_token |-> Vocab[RandInt(Advance(Advance(r)), Len(Vocab)) + 1],
              draws |-> <<Random(r), Random(Advance(r)),
                          RandInt(Advance(Advance(r)), Len(Vocab))>>,
              rng |-> Advance(Advance(Advance(r)))]

\* lines 110-124: the body of the loop over mask_poses for its k-th position.
\* st holds masked_info, the random source, the draws behind every entry and
\* the exception raised so far
SC_create_mask_body(pos, sen, st) ==
    IF pos >= Len(sen)
    THEN [st EXCEPT !.err = "IndexError"]
    ELSE IF IsStop(sen[pos + 1])
    THEN st
    ELSE LET m == MaskToken(sen, pos, st.rng)
         IN  [masked_info |-> [st.masked_info EXCEPT
                                  ![pos + 1] = Entry(m.mask_token, sen[pos + 1])],
              rng |-> m.rng,
              draws |-> Append(st.draws, [pos |-> pos, draws |-> m.draws]),
              err |-> "none"]

\* SC.create_mask(mask_poses, sen, rng) with the random source in state r
RECURSIVE SC_create_mask_loop(_, _, _, _)
SC_create_mask_loop(k, mask_poses, sen, r) ==
    IF k = 0
    THEN [masked_info |-> [p \in 1..Len(sen) |-> NoEntry], rng |-> r,
          draws |-> <<>>, err |-> "none"]
    ELSE LET st == SC_create_mask_loop(k - 1, mask_poses, sen, r)
         IN  IF st.err # "none" THEN st
             ELSE SC_create_mask_body(mask_poses[k], sen, st)

SC_create_mask(mask_poses, sen, r) ==
    SC_create_mask_loop(Len(mask_poses), mask_poses, sen, r)

---------------------------------------------------------------------------
(* The assembly of SC.forward *)

\* lines 249-251: the mask positions of sentence j
MaskPosesOf(j) == IF j \in DOMAIN mask_poses_d THEN mask_poses_d[j] ELSE <<>>

SentenceAfterProbe_Shared(j) ==
    LET sen == sentences[j + 1]
        keep == {p \in 1..Len(sen) : p - 1 \notin Range(MaskPosesOf(j))}
    IN  [k \in 1..Cardinality(keep) |->
            sen[CHOOSE p \in keep : Cardinality({q \in keep : q < p}) = k - 1]]

\* lines 252-253: sentences[i] after the probe.  The prefixes the probe pops
\* from and appends to are new lists (line 201, sen[0:1]), so the sentence
\* holds the tokens it had
SentenceAfterProbe(j) == sentences[j + 1]

\* lines 248-254: the while loop over the sentences j .. e-1 of one document.
\* The result holds the group, the random source, the log and the exception
RECURSIVE SC_AssembleLoop(_, _, _)
SC_AssembleLoop(j, e, r) ==
    IF j >= e
    THEN [group |-> <<>>, rng |-> r, log |-> <<>>, err |-> "none"]
    ELSE LET m == SC_create_mask(MaskPosesOf(j), SentenceAfterProbe(j), r)
             rest == SC_AssembleLoop(j + 1, e, m.rng)
         IN  IF m.err # "none"
             THEN [group |-> <<>>, rng |-> m.rng, log |-> <<>>, err |-> m.err]
             ELSE [group |-> <<[tokens |-> SentenceAfterProbe(j),
                                info |-> m.masked_info]>> \o rest.group,
                   rng |-> rest.rng,
                   log |-> <<[sen |-> j, draws |-> m.draws]>> \o rest.log,
                   err |-> rest.err]

AssembleNext_NoReset(e) ==
    IF doc_id + 1 < doc_num
    THEN [doc_id |-> doc_id + 1, i |-> e, rep |-> rep]
    ELSE [doc_id |-> 0, i |-> e, rep |-> rep + 1]

\* lines 244-246: the loop variables after the document whose sentences end
\* at e: the next document, or the first one of the next replica with i = 0
AssembleNext(e) ==
    IF doc_id + 1 < doc_num
    THEN [doc_id |-> doc_id + 1, i |-> e, rep |-> rep]
    ELSE [doc_id |-> 0, i |-> 0, rep |-> rep + 1]

\* lines 246-254: one round of the document loop of one replica
SC_AssembleDoc ==
    /\ variant = "SC"
    /\ pc = "assemble"
    /\ rep < dupe_factor
    /\ doc_id < doc_num
    /\ LET e == DocEnd(i, doc_id)
           a == SC_AssembleLoop(i, e, rng)
       IN  /\ rng' = a.rng
           /\ IF a.err # "none"
              THEN /\ Halt(a.err)
                   /\ all_documents' = Append(all_documents, <<>>)
                   /\ UNCHANGED <<i, doc_id, rep, draw_log>>
              ELSE /\ all_documents' = Append(all_documents, a.group)
                   /\ draw_log' = Append(draw_log, a.log)
                   /\ doc_id' = AssembleNext(e).doc_id
                   /\ i' = AssembleNext(e).i
                   /\ rep' = AssembleNext(e).rep
                   /\ UNCHANGED <<pc, error>>
    /\ UNCHANGED <<variant, doc_num, all_label_ids, top_sen_rate, mask_rate,
                   threshold, max_seq_length, dupe_factor, model, sentences,
                   sen_doc_ids, texts, sens_preds, sens_pred_scores, preds,
                   right_sens, right_scores, right_sen_doc_ids,
                   right_sen_doc_poses, masked_sens, masked_item_infos,
                   mask_sens_scores, scored_batch, mask_poses_d, mask_poses_L,
                   mask_pos>>
    /\ UNCHANGED eval_features
    /\ UNCHANGED first_call
    /\ UNCHANGED probe_scored
    /\ UNCHANGED probe_log

\* line 256: return all_documents
SC_Return ==
    /\ variant = "SC"
    /\ pc = "assemble"
    /\ rep = dupe_factor \/ doc_num = 0
    /\ pc' = "done"
    /\ UNCHANGED <<variant, error, doc_num, all_label_ids, top_sen_rate, mask_rate,
                   threshold, max_seq_length, dupe_factor, rng, model, sentences,
                   sen_doc_ids, texts, sens_preds, sens_pred_scores, preds, doc_id,
                   i, right_sens, right_scores, right_sen_doc_ids,
                   right_sen_doc_poses, masked_sens, masked_item_infos,
                   mask_sens_scores, scored_batch, mask_poses_d, mask_poses_L,
                   mask_pos, rep, all_documents, draw_log>>
    /\ UNCHANGED eval_features
    /\ UNCHANGED first_call
    /\ UNCHANGED probe_scored
    /\ UNCHANGED probe_log

NextSC ==
    \/ SC_Segment
    \/ SC_EvaluateAll
    \/ SC_SelectDoc
    \/ SC_InitProbe
    \/ SC_ProbeRound
    \/ SC_ProbeExit
    \/ SC_AssembleDoc
    \/ SC_Return

SpecSC == InitSC /\ [][NextSC]_vars

---------------------------------------------------------------------------
(* ASC.forward *)

\* ASC.convert_examples_to_features for one example
ASC_convert_examples_to_features(item) ==
    LET tokens_b == IF Len(item.text) > max_seq_length - 2
                    THEN Take(item.text, max_seq_length - 2) ELSE item.text
        tokens_a == item.aspect
        tokens == <<"[CLS]">> \o tokens_a \o <<"[SEP]">> \o tokens_b \o <<"[SEP]">>
        n == max_seq_length - Len(tokens)
    IN  [input_ids   |-> tokens \o Repeat("[PAD]", n),
         input_mask  |-> Repeat(1, Len(tokens)) \o Repeat(0, n),
         segment_ids |-> Repeat(0, Len(tokens_a) + 2) \o Repeat(1, Len(tokens_b) + 1)
                             \o Repeat(0, n)]

\* line 351: label_map
LabelMap(polarity) == CHOOSE l \in 1..Len(LabelList) : LabelList[l] = polarity

\* lines 359-363: the sentences of the facts of one document with the text text
RECURSIVE FactSentences(_, _)
FactSentences(facts, text) ==
    IF facts = <<>> THEN <<>>
    ELSE (IF Head(facts).polarity # "conflict"
          THEN << [text |-> text, aspect |-> Head(facts).prefix,
                   label |-> LabelMap(Head(facts).polarity) - 1] >>
          ELSE <<>>) \o FactSentences(Tail(facts), text)

InitASC ==
    /\ InitCommon("ASC")
    /\ all_label_ids = <<>>
    /\ top_sen_rate = TopSenRateASC
    /\ mask_rate = <<0, 1>>
    /\ max_seq_length \in SeqLengthsASC

\* lines 356-363: one document is tokenized and its facts become sentences
ASC_Segment ==
    /\ variant = "ASC"
    /\ pc = "segment"
    /\ doc_id < doc_num
    /\ \E text \in TokenLists(Min(MaxLen, MaxTokens - SumLen(texts))) :
         \E n \in 0..MaxSens :
           \E facts \in [1..n -> [prefix : Aspects, polarity : Polarities]] :
              /\ Len(sentences) + Len(FactSentences(facts, text)) <= MaxSens
              /\ texts' = Append(texts, text)
              /\ sentences' = sentences \o FactSentences(facts, text)
              /\ sen_doc_ids' = sen_doc_ids
                                   \o Repeat(doc_id, Len(FactSentences(facts, text)))
    /\ doc_id' = doc_id + 1
    /\ UNCHANGED <<variant, pc, error, doc_num, all_label_ids, top_sen_rate,
                   mask_rate, threshold, max_seq_length, dupe_factor, rng, model,
                   sens_preds, sens_pred_scores, preds, i, right_sens,
                   right_scores, right_sen_doc_ids, right_sen_doc_poses,
                   masked_sens, masked_item_infos, mask_sens_scores, scored_batch,
                   mask_poses_d, mask_poses_L, mask_pos, rep, all_documents,
                   draw_log>>
    /\ UNCHANGED eval_features
    /\ UNCHANGED first_call
    /\ UNCHANGED probe_scored
    /\ UNCHANGED probe_log

\* lines 372-376: the sentences k .. of the batch whose predicted label is
\* their label, as the sen_ids in order
RECURSIVE ASC_RightIds(_)
ASC_RightIds(sen_id) ==
    IF sen_id >= Len(sentences) THEN <<>>
    ELSE (IF sens_preds'[sen_id + 1] = sentences[sen_id + 1].label
          THEN <<sen_id>> ELSE <<>>) \o ASC_RightIds(sen_id + 1)

\* lines 366-386 (ASC.evaluate, lines 278-303): every sentence is scored, the
\* rightly classified ones are retained and the batch starts with the first
\* token of the text of each
ASC_EvaluateAll ==
    /\ variant = "ASC"
    /\ pc = "segment"
    /\ doc_id = doc_num
    /\ LET features == [k \in 1..Len(sentences) |->
                           ASC_convert_examples_to_features(sentences[k])]
       IN  IF \E k \in 1..Len(features) : ~FeatureAsserts(features[k])
           THEN /\ Halt("AssertionError")
                /\ UNCHANGED <<model, sens_preds, sens_pred_scores, right_sens,
                               right_scores, right_sen_doc_ids, masked_sens,
                               mask_poses_L, mask_pos>>
           ELSE IF features = <<>>
           THEN /\ Halt("IndexError")
                /\ UNCHANGED <<model, sens_preds, sens_pred_scores, right_sens,
                               right_scores, right_sen_doc_ids, masked_sens,
                               mask_poses_L, mask_pos>>
           ELSE \E ext \in [NewInputs(features) -> ScoreSet] :
                /\ model' = Answers(ext)
                /\ sens_pred_scores' = EvalScores(features, Answers(ext))
                /\ sens_preds' = EvalPreds(EvalScores(features, Answers(ext)))
                /\ LET ids == ASC_RightIds(0)
                   IN  /\ right_sens' = [k \in 1..Len(ids) |-> sentences[ids[k] + 1]]
                       /\ right_sen_doc_ids' =
                              [k \in 1..Len(ids) |-> sen_doc_ids[ids[k] + 1]]
                       /\ right_scores' =
                              [k \in 1..Len(ids) |->
                                  ScoreOf(sens_pred_scores'[ids[k] + 1],
                                          sentences[ids[k] + 1].label)]
                       /\ masked_sens' =
                              [k \in 1..Len(ids) |->
                                  [text |-> Take(sentences[ids[k] + 1].text, 1),
                                   aspect |-> sentences[ids[k] + 1].aspect,
                                   label |-> sentences[ids[k] + 1].label,
                                   sen_right_id |-> k - 1]]
                /\ mask_poses_L' = [d \in 1..doc_num |-> {}]
                /\ mask_pos' = 0
                /\ pc' = "probe"
                /\ UNCHANGED error
    /\ UNCHANGED <<variant, doc_num, all_label_ids, top_sen_rate, mask_rate,
                   threshold, max_seq_length, dupe_factor, rng, sentences,
                   sen_doc_ids, texts, preds, doc_id, i, right_sen_doc_poses,
                   masked_item_infos, mask_sens_scores, scored_batch, mask_poses_d,
                   rep, all_documents, draw_log>>
    /\ eval_features' = Built([k \in 1..Len(sentences) |->
                                  ASC_convert_examples_to_features(sentences[k])])
    /\ UNCHANGED first_call
    /\ UNCHANGED probe_scored
    /\ UNCHANGED probe_log

\* lines 392-406: the body of the for loop for the k-th element of the batch.
\* st holds mask_poses_L, temp_masked_sens, the batch as rebound by line 406
\* and the exception raised so far
ASC_ProbeBody(k, scores, st) ==
    LET masked_sen == masked_sens[k]
        doc_ground_truth == masked_sen.label
        sen_right_id == masked_sen.sen_right_id
        origin_score == right_scores[sen_right_id + 1]
        right_sen_doc_id == right_sen_doc_ids[sen_right_id + 1]
        chosen == Chosen(origin_score, scores[k], doc_ground_truth)
        L == IF chosen
             THEN [st.L EXCEPT ![right_sen_doc_id + 1] = @ \cup {mask_pos}]
             ELSE st.L
        popped == IF chosen THEN Pop(masked_sen.text) ELSE masked_sen.text
        more == mask_pos + 1 < Len(right_sens[sen_right_id + 1].text)
        grown == [masked_sen EXCEPT
                     !.text = Append(popped,
                                     right_sens[sen_right_id + 1].text[mask_pos + 2])]
    IN  IF chosen /\ masked_sen.text = <<>>
        THEN [st EXCEPT !.L = L, !.err = "IndexError"]
        ELSE [L |-> L,
              temp_sens |-> IF more THEN Append(st.temp_sens, grown) ELSE st.temp_sens,
              sens |-> IF more THEN Append(st.temp_sens, grown) ELSE st.temp_sens,
              err |-> "none"]

\* the for loop of line 392 up to and with the k-th element
RECURSIVE ASC_ProbeLoop(_, _)
ASC_ProbeLoop(k, scores) ==
    IF k = 0
    THEN [L |-> mask_poses_L, temp_sens |-> <<>>, sens |-> masked_sens,
          err |-> "none"]
    ELSE LET st == ASC_ProbeLoop(k - 1, scores)
         IN  IF st.err # "none" THEN st ELSE ASC_ProbeBody(k, scores, st)

\* lines 387-407: one round of the while loop
ASC_ProbeRound ==
    /\ variant = "ASC"
    /\ pc = "probe"
    /\ Len(masked_sens) # 0
    /\ LET features == [k \in 1..Len(masked_sens) |->
                           ASC_convert_examples_to_features(masked_sens[k])]
       IN  IF \E k \in 1..Len(features) : ~FeatureAsserts(features[k])
           THEN /\ Halt("AssertionError")
                /\ UNCHANGED <<model, masked_sens, mask_sens_scores, scored_batch,
                               mask_poses_L, mask_pos>>
           ELSE \E ext \in [NewInputs(features) -> ScoreSet] :
                LET scores == EvalScores(features, Answers(ext))
                    st == ASC_ProbeLoop(Len(masked_sens), scores)
                IN  /\ model' = Answers(ext)
                    /\ mask_sens_scores' = scores
                    /\ scored_batch' = [k \in 1..Len(masked_sens) |->
                                           masked_sens[k].sen_right_id]
                    /\ mask_poses_L' = st.L
                    /\ masked_sens' = st.sens
                    /\ IF st.err # "none"
                       THEN /\ Halt(st.err)
                            /\ UNCHANGED mask_pos
                       ELSE /\ mask_pos' = mask_pos + 1
                            /\ UNCHANGED <<pc, error>>
    /\ UNCHANGED <<variant, doc_num, all_label_ids, top_sen_rate, mask_rate,
                   threshold, max_seq_length, dupe_factor, rng, sentences,
                   sen_doc_ids, texts, sens_preds, sens_pred_scores, preds, doc_id,
                   i, right_sens, right_scores, right_sen_doc_ids,
                   right_sen_doc_poses, masked_item_infos, mask_poses_d, rep,
                   all_documents, draw_log>>
    /\ eval_features' = Built([k \in 1..Len(masked_sens) |->
                                  ASC_convert_examples_to_features(masked_sens[k])])
    /\ UNCHANGED first_call
    /\ probe_scored' =
           IF \A k \in 1..Len(masked_sens) :
                  FeatureAsserts(ASC_convert_examples_to_features(masked_sens[k]))
           THEN probe_scored + Len(masked_sens)
           ELSE probe_scored
    /\ probe_log' =
           IF \A k \in 1..Len(masked_sens) :
                  FeatureAsserts(ASC_convert_examples_to_features(masked_sens[k]))
           THEN Append(probe_log,
                       [sens |-> [k \in 1..Len(masked_sens) |-> masked_sens[k].text],
                        scores |-> [k \in 1..Len(masked_sens) |->
                                       ScoreOf(mask_sens_scores'[k],
                                               masked_sens[k].label)]])
           ELSE probe_log

\* line 387 false, lines 410-415: the probe is over, the salient tokens of
\* every document are printed and the assembly starts
ASC_ProbeExit ==
    /\ variant = "ASC"
    /\ pc = "probe"
    /\ Len(masked_sens) = 0
    /\ IF \E d \in 1..doc_num : \E pos \in mask_poses_L[d] : pos >= Len(texts[d])
       THEN Halt("IndexError")
       ELSE /\ pc' = "assemble"
            /\ UNCHANGED error
    /\ all_documents' = <<>>
    /\ rep' = 0
    /\ doc_id' = 0
    /\ UNCHANGED <<variant, doc_num, all_label_ids, top_sen_rate, mask_rate,
                   threshold, max_seq_length, dupe_factor, rng, model, sentences,
                   sen_doc_ids, texts, sens_preds, sens_pred_scores, preds, i,
                   right_sens, right_scores, right_sen_doc_ids,
                   right_sen_doc_poses, masked_sens, masked_item_infos,
                   mask_sens_scores, scored_batch, mask_poses_d, mask_poses_L,
                   mask_pos, draw_log>>
    /\ UNCHANGED eval_features
    /\ UNCHANGED first_call
    /\ UNCHANGED probe_scored
    /\ UNCHANGED probe_log

\* the elements of a set of positions in the order the loop of line 307 visits
\* them: a set of small ints is iterated in ascending order
RECURSIVE SetOrder(_)
SetOrder(S) ==
    IF S = {} THEN <<>>
    ELSE LET lo == CHOOSE x \in S : \A y \in S : x <= y
         IN  <<lo>> \o SetOrder(S \ {lo})

\* ASC.create_mask(mask_poses, sen, rng), lines 305-322: the statements of
\* SC.create_mask
ASC_create_mask(mask_poses, sen, r) == SC_create_mask(SetOrder(mask_poses), sen, r)

\* lines 416-419: the document loop of one replica from document d on.  The
\* result holds the groups, the random source, the log and the exception
RECURSIVE ASC_AssembleLoop(_, _)
ASC_AssembleLoop(d, r) ==
    IF d >= doc_num
    THEN [groups |-> <<>>, rng |-> r, log |-> <<>>, err |-> "none"]
    ELSE LET m == ASC_create_mask(mask_poses_L[d + 1], texts[d + 1], r)
             rest == ASC_AssembleLoop(d + 1, m.rng)
         IN  IF m.err # "none"
             THEN [groups |-> <<>>, rng |-> m.rng, log |-> <<>>, err |-> m.err]
             ELSE [groups |-> << <<[tokens |-> texts[d + 1],
                                    info |-> m.masked_info]>> >> \o rest.groups,
                   rng |-> rest.rng,
                   log |-> << <<[sen |-> d, draws |-> m.draws]>> >> \o rest.log,
                   err |-> rest.err]

\* lines 415-419: one round of the replica loop
ASC_AssembleReplica ==
    /\ variant = "ASC"
    /\ pc = "assemble"
    /\ rep < dupe_factor
    /\ doc_num > 0
    /\ LET a == ASC_AssembleLoop(0, rng)
       IN  /\ rng' = a.rng
           /\ IF a.err # "none"
              THEN /\ Halt(a.err)
                   /\ UNCHANGED <<all_documents, rep, draw_log>>
              ELSE /\ all_documents' = all_documents \o a.groups
                   /\ draw_log' = draw_log \o a.log
                   /\ rep' = rep + 1
                   /\ UNCHANGED <<pc, error>>
    /\ UNCHANGED <<variant, doc_num, all_label_ids, top_sen_rate, mask_rate,
                   threshold, max_seq_length, dupe_factor, model, sentences,
                   sen_doc_ids, texts, sens_preds, sens_pred_scores, preds, doc_id,
                   i, right_sens, right_scores, right_sen_doc_ids,
                   right_sen_doc_poses, masked_sens, masked_item_infos,
                   mask_sens_scores, scored_batch, mask_poses_d, mask_poses_L,
                   mask_pos>>
    /\ UNCHANGED eval_features
    /\ UNCHANGED first_call
    /\ UNCHANGED probe_scored
    /\ UNCHANGED probe_log

\* line 421: return all_documents
ASC_Return ==
    /\ variant = "ASC"
    /\ pc = "assemble"
    /\ rep = dupe_factor \/ doc_num = 0
    /\ pc' = "done"
    /\ UNCHANGED <<variant, error, doc_num, all_label_ids, top_sen_rate, mask_rate,
                   threshold, max_seq_length, dupe_factor, rng, model, sentences,
                   sen_doc_ids, texts, sens_preds, sens_pred_scores, preds, doc_id,
                   i, right_sens, right_scores, right_sen_doc_ids,
                   right_sen_doc_poses, masked_sens, masked_item_infos,
                   mask_sens_scores, scored_batch, mask_poses_d, mask_poses_L,
                   mask_pos, rep, all_documents, draw_log>>
    /\ UNCHANGED eval_features
    /\ UNCHANGED first_call
    /\ UNCHANGED probe_scored
    /\ UNCHANGED probe_log

NextASC ==
    \/ ASC_Segment
    \/ ASC_EvaluateAll
    \/ ASC_ProbeRound
    \/ ASC_ProbeExit
    \/ ASC_AssembleReplica
    \/ ASC_Return

SpecASC == InitASC /\ [][NextASC]_vars

---------------------------------------------------------------------------
(* ModelGen.forward, with_rand = False *)

\* ModelGen.convert_examples_to_features for one sentence
MG_convert_examples_to_features(tokens) ==
    LET cut == IF Len(tokens) >= max_seq_length - 1
               THEN Take(tokens, max_seq_length - 2) ELSE tokens
        ntokens == <<"[CLS]">> \o cut \o <<"[SEP]">>
        n == max_seq_length - Len(ntokens)
    IN  [input_ids  |-> ntokens \o Repeat("[PAD]", n),
         input_mask |-> Repeat(1, Len(ntokens)) \o Repeat(0, n)]

\* lines 515-520: the number of (class, logit) pairs kept for one feature: the
\* positions 1 .. K-1 whose mask is 1, less the popped [SEP]
KeptPositions(f) ==
    Cardinality({j \in 2..Len(f.input_mask) : f.input_mask[j] = 1}) - 1

\* the answers the token classifier can give at one position: the class of
\* the larger logit and that logit
TokenPreds == Classes \X LogitSet

InitMG ==
    /\ InitCommon("ModelGen")
    /\ all_label_ids = <<>>
    /\ top_sen_rate = <<0, 1>>
    /\ mask_rate \in MaskRates
    /\ max_seq_length \in SeqLengthsMG

\* lines 533-539: one document is segmented and its sentences are tokenized
MG_Segment ==
    /\ variant = "ModelGen"
    /\ pc = "segment"
    /\ doc_id < doc_num
    /\ \E n \in 0..(MaxSens - Len(sentences)) :
         \E tL \in [1..n -> TokenLists(MaxLen)] :
            /\ SumLen(sentences) + SumLen(tL) <= MaxTokens
            /\ sentences' = sentences \o tL
            /\ sen_doc_ids' = sen_doc_ids \o Repeat(doc_id, n)
    /\ doc_id' = doc_id + 1
    /\ UNCHANGED <<variant, pc, error, doc_num, all_label_ids, top_sen_rate,
                   mask_rate, threshold, max_seq_length, dupe_factor, rng, model,
                   texts, sens_preds, sens_pred_scores, preds, i, right_sens,
                   right_scores, right_sen_doc_ids, right_sen_doc_poses,
                   masked_sens, masked_item_infos, mask_sens_scores, scored_batch,
                   mask_poses_d, mask_poses_L, mask_pos, rep, all_documents,
                   draw_log>>
    /\ UNCHANGED eval_features
    /\ UNCHANGED first_call
    /\ UNCHANGED probe_scored
    /\ UNCHANGED probe_log

\* line 541 (ModelGen.evaluate, lines 480-523) and lines 543-544
MG_EvaluateAll ==
    /\ variant = "ModelGen"
    /\ pc = "segment"
    /\ doc_id = doc_num
    /\ LET features == [k \in 1..Len(sentences) |->
                           MG_convert_examples_to_features(sentences[k])]
           kept == [x \in NewInputs(features) |->
                       KeptPositions(CHOOSE f \in Range(features) : f.input_ids = x)]
           slots == {<<x, j>> : x \in NewInputs(features), j \in 1..MaxLen}
       IN  \E t \in [{sl \in slots : sl[2] <= kept[sl[1]]} -> TokenPreds] :
              LET ext == [x \in NewInputs(features) |->
                             [j \in 1..kept[x] |-> t[<<x, j>>]]]
              IN  /\ model' = Answers(ext)
                  /\ preds' = [k \in 1..Len(features) |->
                                  Answers(ext)[features[k].input_ids]]
    /\ pc' = "assemble"
    /\ all_documents' = <<>>
    /\ rep' = 0
    /\ doc_id' = 0
    /\ i' = 0
    /\ UNCHANGED <<variant, error, doc_num, all_label_ids, top_sen_rate, mask_rate,
                   threshold, max_seq_length, dupe_factor, rng, sentences,
                   sen_doc_ids, texts, sens_preds, sens_pred_scores, right_sens,
                   right_scores, right_sen_doc_ids, right_sen_doc_poses,
                   masked_sens, masked_item_infos, mask_sens_scores, scored_batch,
                   mask_poses_d, mask_poses_L, mask_pos, draw_log>>
    /\ eval_features' = [k \in 1..Len(sentences) |->
                            MG_convert_examples_to_features(sentences[k])]
    /\ UNCHANGED first_call
    /\ UNCHANGED probe_scored
    /\ UNCHANGED probe_log

\* line 552: the (pos, logit) of the positions from pos on whose class is 1
RECURSIVE MG_Candidates(_, _)
MG_Candidates(pred, pos) ==
    IF pos >= Len(pred) THEN <<>>
    ELSE (IF pred[pos + 1][1] = 1 THEN << <<pos, pred[pos + 1][2]>> >> ELSE <<>>)
            \o MG_Candidates(pred, pos + 1)

MG_InsertDesc_Strict(x, s) ==
    LET before == {k \in 1..Len(s) : s[k][2] > x[2]}
    IN  Take(s, Cardinality(before)) \o <<x>>
           \o SubSeq(s, Cardinality(before) + 1, Len(s))

\* line 553: sorted(mask_poses, key=lambda x: x[1], reverse=True), a stable
\* sort: x goes behind the elements of s whose logit is not smaller
MG_InsertDesc(x, s) ==
    LET before == {k \in 1..Len(s) : s[k][2] >= x[2]}
    IN  Take(s, Cardinality(before)) \o <<x>>
           \o SubSeq(s, Cardinality(before) + 1, Len(s))

RECURSIVE MG_SortedDesc(_)
MG_SortedDesc(s) ==
    IF s = <<>> THEN <<>>
    ELSE MG_InsertDesc(s[Len(s)], MG_SortedDesc(Take(s, Len(s) - 1)))

MG_MaxMaskNum_NoFloor(sen) == Len(sen)

\* line 554: int(max(1, self.mask_rate * len(sentences[i])))
MG_MaxMaskNum(sen) == Max(1, IntTimes(mask_rate, Len(sen)))

\* lines 552-555: the mask positions of the sentence sen with the answers pred
MG_MaskPoses(pred, sen) ==
    LET ranked == MG_SortedDesc(MG_Candidates(pred, 0))
        cut == Take(ranked, MG_MaxMaskNum(sen))
    IN  [k \in 1..Len(cut) |-> cut[k][1]]

\* lines 447-456: the body of the for loop of ModelGen.create_mask
MG_create_mask_body(pos, sen, st) ==
    IF pos >= Len(sen)
    THEN [st EXCEPT !.err = "IndexError"]
    ELSE LET m == MaskToken(sen, pos, st.rng)
         IN  [masked_info |-> [st.masked_info EXCEPT
                                  ![pos + 1] = Entry(m.mask_token, sen[pos + 1])],
              rng |-> m.rng,
              draws |-> Append(st.draws, [pos |-> pos, draws |-> m.draws]),
              err |-> "none"]

\* ModelGen.create_mask(mask_poses, sen, rng) with the random source in state r
RECURSIVE MG_create_mask_loop(_, _, _, _)
MG_create_mask_loop(k, mask_poses, sen, r) ==
    IF k = 0
    THEN [masked_info |-> [p \in 1..Len(sen) |-> NoEntry], rng |-> r,
          draws |-> <<>>, err |-> "none"]
    ELSE LET st == MG_create_mask_loop(k - 1, mask_poses, sen, r)
         IN  IF st.err # "none" THEN st
             ELSE MG_create_mask_body(mask_poses[k], sen, st)

MG_create_mask(mask_poses, sen, r) ==
    MG_create_mask_loop(Len(mask_poses), mask_poses, sen, r)

\* lines 551-564: the while loop over the sentences j .. e-1 of one document.
\* The result holds the group, the mask positions of every sentence visited,
\* the random source, the log and the exception
RECURSIVE MG_AssembleLoop(_, _, _)
MG_AssembleLoop(j, e, r) ==
    IF j >= e
    THEN [group |-> <<>>, poses |-> <<>>, rng |-> r, log |-> <<>>, err |-> "none"]
    ELSE LET mask_poses == MG_MaskPoses(preds[j + 1], sentences[j + 1])
             m == MG_create_mask(mask_poses, sentences[j + 1], r)
             rest == MG_AssembleLoop(j + 1, e, m.rng)
         IN  IF m.err # "none"
             THEN [group |-> <<>>, poses |-> <<mask_poses>>, rng |-> m.rng,
                   log |-> <<>>, err |-> m.err]
             ELSE [group |-> <<[tokens |-> sentences[j + 1],
                                info |-> m.masked_info]>> \o rest.group,
                   poses |-> <<mask_poses>> \o rest.poses,
                   rng |-> rest.rng,
                   log |-> <<[sen |-> j, draws |-> m.draws]>> \o rest.log,
                   err |-> rest.err]

\* lines 547-564: one round of the document loop of one replica
MG_AssembleDoc ==
    /\ variant = "ModelGen"
    /\ pc = "assemble"
    /\ rep < dupe_factor
    /\ doc_id < doc_num
    /\ LET e == DocEnd(i, doc_id)
           a == MG_AssembleLoop(i, e, rng)
           nxt == AssembleNext(e)
       IN  /\ rng' = a.rng
           /\ mask_poses_d' =
                  [j \in (DOMAIN mask_poses_d) \cup (i..(i + Len(a.poses) - 1)) |->
                      IF j \in i..(i + Len(a.poses) - 1)
                      THEN a.poses[j - i + 1] ELSE mask_poses_d[j]]
           /\ IF a.err # "none"
              THEN /\ Halt(a.err)
                   /\ UNCHANGED <<all_documents, doc_id, i, rep, draw_log>>
              ELSE /\ all_documents' = Append(all_documents, a.group)
                   /\ draw_log' = Append(draw_log, a.log)
                   /\ doc_id' = nxt.doc_id
                   /\ i' = nxt.i
                   /\ rep' = nxt.rep
                   /\ UNCHANGED <<pc, error>>
    /\ UNCHANGED <<variant, doc_num, all_label_ids, top_sen_rate, mask_rate,
                   threshold, max_seq_length, dupe_factor, model, sentences,
                   sen_doc_ids, texts, sens_preds, sens_pred_scores, preds,
                   right_sens, right_scores, right_sen_doc_ids,
                   right_sen_doc_poses, masked_sens, masked_item_infos,
                   mask_sens_scores, scored_batch, mask_poses_L, mask_pos>>
    /\ UNCHANGED eval_features
    /\ UNCHANGED first_call
    /\ UNCHANGED probe_scored
    /\ UNCHANGED probe_log

\* lines 569-570: return all_documents
MG_Return ==
    /\ variant = "ModelGen"
    /\ pc = "assemble"
    /\ rep = dupe_factor \/ doc_num = 0
    /\ pc' = "done"
    /\ UNCHANGED <<variant, error, doc_num, all_label_ids, top_sen_rate, mask_rate,
                   threshold, max_seq_length, dupe_factor, rng, model, sentences,
                   sen_doc_ids, texts, sens_preds, sens_pred_scores, preds, doc_id,
                   i, right_sens, right_scores, right_sen_doc_ids,
                   right_sen_doc_poses, masked_sens, masked_item_infos,
                   mask_sens_scores, scored_batch, mask_poses_d, mask_poses_L,
                   mask_pos, rep, all_documents, draw_log>>
    /\ UNCHANGED eval_features
    /\ UNCHANGED first_call
    /\ UNCHANGED probe_scored
    /\ UNCHANGED probe_log

NextMG ==
    \/ MG_Segment
    \/ MG_EvaluateAll
    \/ MG_AssembleDoc
    \/ MG_Return

SpecMG == InitMG /\ [][NextMG]_vars

---------------------------------------------------------------------------
(* The three mask generators *)

Next ==
    \/ NextSC
    \/ NextASC
    \/ NextMG

Spec == (InitSC \/ InitASC \/ InitMG) /\ [][Next]_vars

---------------------------------------------------------------------------
(* SC.forward called a second time on the same documents and labels *)

SC_CallAgain_KeepLists ==
    /\ variant = "SC"
    /\ pc = "done"
    /\ first_call = <<>>
    /\ first_call' = <<[right_sens |-> right_sens,
                        right_scores |-> right_scores,
                        right_sen_doc_ids |-> right_sen_doc_ids,
                        right_sen_doc_poses |-> right_sen_doc_poses]>>
    /\ pc' = "segment"
    /\ doc_id' = doc_num
    /\ i' = 0
    /\ sens_preds' = <<>>
    /\ sens_pred_scores' = <<>>
    /\ UNCHANGED <<right_sens, right_scores, right_sen_doc_ids, right_sen_doc_poses>>
    /\ masked_sens' = <<>>
    /\ masked_item_infos' = <<>>
    /\ mask_sens_scores' = <<>>
    /\ scored_batch' = <<>>
    /\ mask_poses_d' = <<>>
    /\ mask_pos' = 0
    /\ rep' = 0
    /\ all_documents' = <<>>
    /\ draw_log' = <<>>
    /\ eval_features' = <<>>
    /\ UNCHANGED <<variant, error, doc_num, all_label_ids, top_sen_rate, mask_rate,
                   threshold, max_seq_length, dupe_factor, rng, model, sentences,
                   sen_doc_ids, texts, preds, mask_poses_L>>
    /\ UNCHANGED probe_scored
    /\ UNCHANGED probe_log

\* lines 144-171 of a second call forward(data, all_labels, dupe_factor, rng)
\* with the data and labels of the first one, which has returned: the locals
\* are new, the documents are segmented into the same sentences, self.model
\* and the random source are the objects the first call left
SC_CallAgain ==
    /\ variant = "SC"
    /\ pc = "done"
    /\ first_call = <<>>
    /\ first_call' = <<[right_sens |-> right_sens,
                        right_scores |-> right_scores,
                        right_sen_doc_ids |-> right_sen_doc_ids,
                        right_sen_doc_poses |-> right_sen_doc_poses]>>
    /\ pc' = "segment"
    /\ doc_id' = doc_num
    /\ i' = 0
    /\ sens_preds' = <<>>
    /\ sens_pred_scores' = <<>>
    /\ right_sens' = <<>>
    /\ right_scores' = <<>>
    /\ right_sen_doc_ids' = <<>>
    /\ right_sen_doc_poses' = <<>>
    /\ masked_sens' = <<>>
    /\ masked_item_infos' = <<>>
    /\ mask_sens_scores' = <<>>
    /\ scored_batch' = <<>>
    /\ mask_poses_d' = <<>>
    /\ mask_pos' = 0
    /\ rep' = 0
    /\ all_documents' = <<>>
    /\ draw_log' = <<>>
    /\ eval_features' = <<>>
    /\ UNCHANGED <<variant, error, doc_num, all_label_ids, top_sen_rate, mask_rate,
                   threshold, max_seq_length, dupe_factor, rng, model, sentences,
                   sen_doc_ids, texts, preds, mask_poses_L>>
    /\ UNCHANGED probe_scored
    /\ UNCHANGED probe_log

\* the second call is followed up to the end of its selection loop
NextSCTwice ==
    \/ SC_Segment
    \/ SC_EvaluateAll
    \/ SC_SelectDoc
    \/ (first_call = <<>> /\ SC_InitProbe)
    \/ SC_ProbeRound
    \/ SC_ProbeExit
    \/ SC_AssembleDoc
    \/ SC_Return
    \/ SC_CallAgain

SpecSCTwice == InitSC /\ [][NextSCTwice]_vars

---------------------------------------------------------------------------
(* convert_examples_to_features on its own: one call with one example *)

\* the values of self.max_seq_length the conversion is called with
ConvSeqLengths == 2..MaxConvSeq

InitConvert ==
    /\ variant \in {"SC", "ASC", "ModelGen"}
    /\ pc = "convert"
    /\ error = "none"
    /\ max_seq_length \in ConvSeqLengths
    /\ doc_num = 0
    /\ all_label_ids = <<>>
    /\ top_sen_rate = <<1, 1>>
    /\ mask_rate = <<1, 1>>
    /\ threshold \in Thresholds
    /\ dupe_factor = 1
    /\ rng = 0
    /\ model = <<>>
    /\ eval_features = <<>>
    /\ first_call = <<>>
    /\ probe_scored = 0
    /\ probe_log = <<>>
    /\ sentences = <<>>
    /\ sen_doc_ids = <<>>
    /\ texts = <<>>
    /\ sens_preds = <<>>
    /\ sens_pred_scores = <<>>
    /\ preds = <<>>
    /\ doc_id = 0
    /\ i = 0
    /\ right_sens = <<>>
    /\ right_scores = <<>>
    /\ right_sen_doc_ids = <<>>
    /\ right_sen_doc_poses = <<>>
    /\ masked_sens = <<>>
    /\ masked_item_infos = <<>>
    /\ mask_sens_scores = <<>>
    /\ scored_batch = <<>>
    /\ mask_poses_d = <<>>
    /\ mask_poses_L = <<>>
    /\ mask_pos = 0
    /\ rep = 0
    /\ all_documents = <<>>
    /\ draw_log = <<>>

\* SC.convert_examples_to_features(data) with data = [tokens_a]
SC_Convert ==
    /\ variant = "SC"
    /\ pc = "convert"
    /\ \E tokens_a \in TokenLists(MaxConvLen) :
          LET f == SC_convert_examples_to_features(tokens_a)
          IN  /\ sentences' = <<tokens_a>>
              /\ eval_features' = Built(<<f>>)
              /\ IF FeatureAsserts(f)
                 THEN pc' = "converted" /\ UNCHANGED error
                 ELSE Halt("AssertionError")
    /\ UNCHANGED <<variant, doc_num, all_label_ids, top_sen_rate, mask_rate,
                   threshold, max_seq_length, dupe_factor, rng, model,
                   sen_doc_ids, texts, sens_preds, sens_pred_scores, preds, doc_id,
                   i, right_sens, right_scores, right_sen_doc_ids,
                   right_sen_doc_poses, masked_sens, masked_item_infos,
                   mask_sens_scores, scored_batch, mask_poses_d, mask_poses_L,
                   mask_pos, rep, all_documents, draw_log>>
    /\ UNCHANGED first_call
    /\ UNCHANGED probe_scored
    /\ UNCHANGED probe_log

\* ASC.convert_examples_to_features(data) with data = [item]
ASC_Convert ==
    /\ variant = "ASC"
    /\ pc = "convert"
    /\ \E text \in TokenLists(MaxConvLen) : \E aspect \in TokenLists(MaxLen) :
          LET item == [text |-> text, aspect |-> aspect, label |-> 0]
              f == ASC_convert_examples_to_features(item)
          IN  /\ sentences' = <<item>>
              /\ eval_features' = Built(<<f>>)
              /\ IF FeatureAsserts(f)
                 THEN pc' = "converted" /\ UNCHANGED error
                 ELSE Halt("AssertionError")
    /\ UNCHANGED <<variant, doc_num, all_label_ids, top_sen_rate, mask_rate,
                   threshold, max_seq_length, dupe_factor, rng, model,
                   sen_doc_ids, texts, sens_preds, sens_pred_scores, preds, doc_id,
                   i, right_sens, right_scores, right_sen_doc_ids,
                   right_sen_doc_poses, masked_sens, masked_item_infos,
                   mask_sens_scores, scored_batch, mask_poses_d, mask_poses_L,
                   mask_pos, rep, all_documents, draw_log>>
    /\ UNCHANGED first_call
    /\ UNCHANGED probe_scored
    /\ UNCHANGED probe_log

\* ModelGen.convert_examples_to_features(data) with data = [tokens]
MG_Convert ==
    /\ variant = "ModelGen"
    /\ pc = "convert"
    /\ \E tokens \in TokenLists(MaxConvLen) :
          /\ sentences' = <<tokens>>
          /\ eval_features' = <<MG_convert_examples_to_features(tokens)>>
    /\ pc' = "converted"
    /\ UNCHANGED error
    /\ UNCHANGED <<variant, doc_num, all_label_ids, top_sen_rate, mask_rate,
                   threshold, max_seq_length, dupe_factor, rng, model,
                   sen_doc_ids, texts, sens_preds, sens_pred_scores, preds, doc_id,
                   i, right_sens, right_scores, right_sen_doc_ids,
                   right_sen_doc_poses, masked_sens, masked_item_infos,
                   mask_sens_scores, scored_batch, mask_poses_d, mask_poses_L,
                   mask_pos, rep, all_documents, draw_log>>
    /\ UNCHANGED first_call
    /\ UNCHANGED probe_scored
    /\ UNCHANGED probe_log

NextConvert ==
    \/ SC_Convert
    \/ ASC_Convert
    \/ MG_Convert

SpecConvert == InitConvert /\ [][NextConvert]_vars

---------------------------------------------------------------------------
(* create_mask on its own: one call for one sentence *)

InitCreateMask ==
    /\ variant \in {"SC", "ModelGen"}
    /\ pc = "create_mask"
    /\ error = "none"
    /\ rng \in 0..(Len(RngCycle) - 1)
    /\ \E sen \in TokenLists(MaxLen) : \E S \in SUBSET (0..(Len(sen) - 1)) :
          /\ sentences = <<sen>>
          /\ mask_poses_d = IF S = {} THEN <<>> ELSE [j \in {0} |-> SetOrder(S)]
    /\ max_seq_length = MaxLen + 2
    /\ doc_num = 1
    /\ all_label_ids = <<>>
    /\ top_sen_rate = <<1, 1>>
    /\ mask_rate = <<1, 1>>
    /\ threshold \in Thresholds
    /\ dupe_factor = 1
    /\ model = <<>>
    /\ eval_features = <<>>
    /\ first_call = <<>>
    /\ probe_scored = 0
    /\ probe_log = <<>>
    /\ sen_doc_ids = <<0>>
    /\ texts = <<>>
    /\ sens_preds = <<>>
    /\ sens_pred_scores = <<>>
    /\ preds = <<>>
    /\ doc_id = 0
    /\ i = 0
    /\ right_sens = <<>>
    /\ right_scores = <<>>
    /\ right_sen_doc_ids = <<>>
    /\ right_sen_doc_poses = <<>>
    /\ masked_sens = <<>>
    /\ masked_item_infos = <<>>
    /\ mask_sens_scores = <<>>
    /\ scored_batch = <<>>
    /\ mask_poses_L = <<>>
    /\ mask_pos = 0
    /\ rep = 0
    /\ all_documents = <<>>
    /\ draw_log = <<>>

\* SC.create_mask(mask_poses, sen, rng) and the instance built of its result
SC_CreateMask ==
    /\ variant = "SC"
    /\ pc = "create_mask"
    /\ LET m == SC_create_mask(MaskPosesOf(0), sentences[1], rng)
       IN  /\ rng' = m.rng
           /\ all_documents' = << <<[tokens |-> sentences[1],
                                     info |-> m.masked_info]>> >>
           /\ draw_log' = << <<[sen |-> 0, draws |-> m.draws]>> >>
    /\ pc' = "masked"
    /\ UNCHANGED <<variant, error, doc_num, all_label_ids, top_sen_rate, mask_rate,
                   threshold, max_seq_length, dupe_factor, model, eval_features,
                   first_call, probe_scored, probe_log, sentences, sen_doc_ids, texts,
                   sens_preds, sens_pred_scores, preds, doc_id, i, right_sens,
                   right_scores, right_sen_doc_ids, right_sen_doc_poses, masked_sens,
                   masked_item_infos, mask_sens_scores, scored_batch, mask_poses_d,
                   mask_poses_L, mask_pos, rep>>

\* ModelGen.create_mask(mask_poses, sen, rng) and the instance built of its result
MG_CreateMask ==
    /\ variant = "ModelGen"
    /\ pc = "create_mask"
    /\ LET m == MG_create_mask(MaskPosesOf(0), sentences[1], rng)
       IN  /\ rng' = m.rng
           /\ all_documents' = << <<[tokens |-> sentences[1],
                                     info |-> m.masked_info]>> >>
           /\ draw_log' = << <<[sen |-> 0, draws |-> m.draws]>> >>
    /\ pc' = "masked"
    /\ UNCHANGED <<variant, error, doc_num, all_label_ids, top_sen_rate, mask_rate,
                   threshold, max_seq_length, dupe_factor, model, eval_features,
                   first_call, probe_scored, probe_log, sentences, sen_doc_ids, texts,
                   sens_preds, sens_pred_scores, preds, doc_id, i, right_sens,
                   right_scores, right_sen_doc_ids, right_sen_doc_poses, masked_sens,
                   masked_item_infos, mask_sens_scores, scored_batch, mask_poses_d,
                   mask_poses_L, mask_pos, rep>>

NextCreateMask ==
    \/ SC_CreateMask
    \/ MG_CreateMask

SpecCreateMask == InitCreateMask /\ [][NextCreateMask]_vars

---------------------------------------------------------------------------
(* The probe of SC.forward and the probe of ASC.forward on the same tokens:
   one retained sentence is probed by SC, then the same tokens, as the text
   of one rightly classified pair, are probed by ASC.  first_call keeps what
   the SC probe did *)

\* the state of SC.forward before line 208 for one document of label 0 with
\* one retained sentence sen whose probability of the label is s, the
\* maximum sequence length being one of lengths
ProbeStart(lengths) ==
    /\ variant = "SC"
    /\ pc = "probe"
    /\ error = "none"
    /\ rng = 0
    /\ max_seq_length \in lengths
    /\ \E sen \in TokenLists(MaxProbeLen) : \E s \in ScoreSet :
          /\ sentences = <<sen>>
          /\ right_sens = <<sen>>
          /\ right_scores = <<s>>
          /\ masked_sens = <<Take(sen, 1)>>
          /\ model = [x \in {SC_convert_examples_to_features(sen).input_ids} |-> s]
          /\ sens_preds = <<0>>
          /\ sens_pred_scores = <<Probs(s)>>
    /\ doc_num = 1
    /\ all_label_ids = <<0>>
    /\ top_sen_rate = <<1, 1>>
    /\ mask_rate = <<0, 1>>
    /\ threshold \in Thresholds
    /\ dupe_factor = 1
    /\ eval_features = <<>>
    /\ first_call = <<>>
    /\ probe_scored = 0
    /\ probe_log = <<>>
    /\ sen_doc_ids = <<0>>
    /\ texts = <<>>
    /\ preds = <<>>
    /\ doc_id = 1
    /\ i = 1
    /\ right_sen_doc_ids = <<0>>
    /\ right_sen_doc_poses = <<0>>
    /\ masked_item_infos = <<[sen_doc_pos |-> 0, sen_right_id |-> 0,
                              doc_ground_truth |-> 0]>>
    /\ mask_sens_scores = <<>>
    /\ scored_batch = <<>>
    /\ mask_poses_d = <<>>
    /\ mask_poses_L = <<>>
    /\ mask_pos = 0
    /\ rep = 0
    /\ all_documents = <<>>
    /\ draw_log = <<>>

\* the sentence is short enough for the feature conversion of both classes
InitProbePair == ProbeStart({MaxProbeLen + 4})

\* the SC probe is over (line 208 false, or an exception): the state of
\* ASC.forward before line 387 for one document whose text is the same tokens,
\* with one rightly classified pair of the same label and the same probability
ASC_ProbeSameTokens ==
    /\ variant = "SC"
    /\ first_call = <<>>
    /\ (pc = "probe" /\ Len(masked_sens) = 0) \/ pc = "error"
    /\ first_call' = <<[salient |-> IF 0 \in DOMAIN mask_poses_d
                                    THEN mask_poses_d[0] ELSE <<>>,
                        log |-> probe_log,
                        rounds |-> mask_pos,
                        error |-> error]>>
    /\ variant' = "ASC"
    /\ pc' = "probe"
    /\ error' = "none"
    /\ \E aspect \in Aspects :
          LET sen == [text |-> sentences[1], aspect |-> aspect, label |-> 0]
          IN  /\ sentences' = <<sen>>
              /\ right_sens' = <<sen>>
              /\ masked_sens' = <<[text |-> Take(sentences[1], 1), aspect |-> aspect,
                                   label |-> 0, sen_right_id |-> 0]>>
              /\ model' = [x \in {ASC_convert_examples_to_features(sen).input_ids}
                              |-> right_scores[1]]
    /\ texts' = <<sentences[1]>>
    /\ all_label_ids' = <<>>
    /\ masked_item_infos' = <<>>
    /\ mask_poses_d' = <<>>
    /\ mask_poses_L' = <<{}>>
    /\ mask_pos' = 0
    /\ mask_sens_scores' = <<>>
    /\ scored_batch' = <<>>
    /\ probe_scored' = 0
    /\ probe_log' = <<>>
    /\ eval_features' = <<>>
    /\ UNCHANGED <<doc_num, top_sen_rate, mask_rate, threshold, max_seq_length,
                   dupe_factor, rng, sen_doc_ids, sens_preds, sens_pred_scores,
                   preds, doc_id, i, right_scores, right_sen_doc_ids,
                   right_sen_doc_poses, rep, all_documents, draw_log>>

NextProbePair ==
    \/ SC_ProbeRound
    \/ ASC_ProbeSameTokens
    \/ ASC_ProbeRound

SpecProbePair == InitProbePair /\ [][NextProbePair]_vars

---------------------------------------------------------------------------
(* The probe of SC.forward on one retained sentence that can be longer than
   max_seq_length - 2 tokens *)

InitProbeLong == ProbeStart(SeqLengthsSC)

NextProbeLong ==
    \/ SC_ProbeRound
    \/ SC_ProbeExit

SpecProbeLong == InitProbeLong /\ [][NextProbeLong]_vars

---------------------------------------------------------------------------
(* Properties.  The vocabulary they are stated in. *)

\* the sentences of document d, as indices into sentences
SensOfDoc(d) == {j \in 0..(Len(sentences) - 1) : sen_doc_ids[j + 1] = d}
\* every sentence has been scored
Scored == Len(sens_preds) > 0 /\ Len(sens_preds) = Len(sentences)
\* the selection loop has dealt with document d
Selected(d) == Scored /\ (pc = "select" => d < doc_id)
\* the probability the classifier gave sentence j for the label of its document
TruthScore(j) == sens_pred_scores[j + 1][all_label_ids[sen_doc_ids[j + 1] + 1] + 1]
\* sentence j was classified as its document is labelled
RightlyClassified(j) == sens_preds[j + 1] = all_label_ids[sen_doc_ids[j + 1] + 1]
\* the places of document d in the lists of retained sentences
RetainedAt(d) == {k \in 1..Len(right_sens) : right_sen_doc_ids[k] = d}
\* the retained sentences of document d, as indices into sentences
RetainedOf(d) == {right_sen_doc_poses[k] : k \in RetainedAt(d)}
\* the salient positions recorded for sentence j
SalientOf(j) == IF j \in DOMAIN mask_poses_d THEN Range(mask_poses_d[j]) ELSE {}
\* a probe round has completed and its batch is the one kept in scored_batch
RoundDone == variant = "SC" /\ pc \in {"probe", "assemble", "done"} /\ mask_pos >= 1

\* C2: in the SC probe, the position under test in a round is recorded as
\* salient for a sentence of the batch exactly when the probability of the
\* ground truth for the full sentence minus that for the prefix scored in the
\* round is strictly below the threshold
C2_SalientIffDropBelowThreshold ==
    RoundDone =>
        \A k \in 1..Len(scored_batch) :
            LET j == right_sen_doc_poses[scored_batch[k] + 1]
                truth == all_label_ids[sen_doc_ids[j + 1] + 1]
                drop == TruthScore(j) - mask_sens_scores[k][truth + 1]
            IN  ((mask_pos - 1) \in SalientOf(j)) <=> (drop < threshold)

\* C2, witness: a round has tested a sentence whose drop equals the threshold
\* and one whose drop is below it
C2_Witness ==
    /\ RoundDone
    /\ \E k \in 1..Len(scored_batch) :
          LET j == right_sen_doc_poses[scored_batch[k] + 1]
              truth == all_label_ids[sen_doc_ids[j + 1] + 1]
          IN  /\ TruthScore(j) - mask_sens_scores[k][truth + 1] = threshold
              /\ (mask_pos - 1) \notin SalientOf(j)
    /\ \E k \in 1..Len(scored_batch) :
          LET j == right_sen_doc_poses[scored_batch[k] + 1]
              truth == all_label_ids[sen_doc_ids[j + 1] + 1]
          IN  /\ TruthScore(j) - mask_sens_scores[k][truth + 1] < threshold
              /\ (mask_pos - 1) \in SalientOf(j)

\* C3: the retained sentences of a document are sentences of that document
\* whose predicted label is the ground truth of the document, and the probe
\* batch holds retained sentences only
C3_RetainedAreRightSentencesOfDoc ==
    variant = "SC" =>
        /\ \A k \in 1..Len(right_sens) :
              LET j == right_sen_doc_poses[k]
              IN  /\ j \in 0..(Len(sentences) - 1)
                  /\ sen_doc_ids[j + 1] = right_sen_doc_ids[k]
                  /\ right_sens[k] = sentences[j + 1]
                  /\ RightlyClassified(j)
        /\ \A k \in 1..Len(masked_item_infos) :
              /\ masked_item_infos[k].sen_right_id \in 0..(Len(right_sens) - 1)
              /\ masked_item_infos[k].sen_doc_pos =
                     right_sen_doc_poses[masked_item_infos[k].sen_right_id + 1]

\* C3, witness: a sentence is retained and is in the probe batch while a
\* sentence of its document is misclassified and another document has the
\* other label
C3_Witness ==
    /\ variant = "SC"
    /\ pc = "probe"
    /\ \E k \in 1..Len(masked_item_infos) :
          \E j \in SensOfDoc(right_sen_doc_ids[masked_item_infos[k].sen_right_id + 1]) :
              ~RightlyClassified(j)
    /\ \E d1, d2 \in 0..(doc_num - 1) : all_label_ids[d1 + 1] # all_label_ids[d2 + 1]

\* C4: of a document with k >= 1 rightly classified sentences exactly
\* max(1, floor(top_sen_rate * k)) are retained, and no sentence that was left
\* out has a higher probability of the ground truth than a retained one
C4_TopFractionRetained ==
    variant = "SC" =>
        \A d \in 0..(doc_num - 1) :
            Selected(d) =>
                LET right == {j \in SensOfDoc(d) : RightlyClassified(j)}
                    k == Cardinality(right)
                IN  /\ RetainedOf(d) \subseteq right
                    /\ Cardinality(RetainedAt(d)) = Cardinality(RetainedOf(d))
                    /\ k >= 1 => Cardinality(RetainedOf(d)) =
                           Max(1, (top_sen_rate[1] * k) \div top_sen_rate[2])
                    /\ \A a \in RetainedOf(d) : \A b \in right \ RetainedOf(d) :
                           TruthScore(a) >= TruthScore(b)

\* C4, witness: a document with two rightly classified sentences of which the
\* second has the higher probability, and the rate cuts one off
C4_Witness ==
    /\ variant = "SC"
    /\ \E d \in 0..(doc_num - 1) :
          /\ Selected(d)
          /\ \E a, b \in SensOfDoc(d) :
                /\ a < b
                /\ RightlyClassified(a)
                /\ RightlyClassified(b)
                /\ TruthScore(a) < TruthScore(b)
                /\ RetainedOf(d) = {b}

\* C5 as stated: of two retained sentences of a document, the one that is
\* earlier in the document is earlier in the list of retained sentences
C5_RetainedInDocumentOrder ==
    variant = "SC" =>
        \A k1, k2 \in 1..Len(right_sens) :
            (k1 < k2 /\ right_sen_doc_ids[k1] = right_sen_doc_ids[k2])
                => right_sen_doc_poses[k1] < right_sen_doc_poses[k2]

\* C5, amended: the retained sentences of a document are listed by descending
\* probability of the ground truth, and in their document order only among
\* sentences of equal probability
C5_RetainedInScoreOrder ==
    variant = "SC" =>
        \A k1, k2 \in 1..Len(right_sens) :
            (k1 < k2 /\ right_sen_doc_ids[k1] = right_sen_doc_ids[k2])
                => \/ TruthScore(right_sen_doc_poses[k1]) > TruthScore(right_sen_doc_poses[k2])
                   \/ /\ TruthScore(right_sen_doc_poses[k1]) = TruthScore(right_sen_doc_poses[k2])
                      /\ right_sen_doc_poses[k1] < right_sen_doc_poses[k2]

\* C5, witness: two sentences of a document are retained, and the later one,
\* of higher probability, is listed first
C5_Witness ==
    /\ variant = "SC"
    /\ \E k1, k2 \in 1..Len(right_sens) :
          /\ k1 < k2
          /\ right_sen_doc_ids[k1] = right_sen_doc_ids[k2]
          /\ right_sen_doc_poses[k1] > right_sen_doc_poses[k2]
          /\ right_scores[k1] > right_scores[k2]

\* the index in sentences of the first sentence of document d
FirstSen(d) == Cardinality({j \in 0..(Len(sentences) - 1) : sen_doc_ids[j + 1] < d})
\* the document of the g-th group of all_documents, g counted from 1
DocOfGroup(g) == (g - 1) % doc_num
\* the positions of an instance that carry a masking entry
MaskedPositions(inst) == {p \in 0..(Len(inst.info) - 1) : inst.info[p + 1] # NoEntry}

\* C7: in the SC output the positions of an instance that carry a masking
\* entry are the salient positions of its sentence whose token is no stop word
C7_MaskedAreSalientNonStop ==
    (variant = "SC" /\ pc \in {"assemble", "done"}) =>
        \A g \in 1..Len(all_documents) :
            \A n \in 1..Len(all_documents[g]) :
                LET j == FirstSen(DocOfGroup(g)) + n - 1
                IN  MaskedPositions(all_documents[g][n]) =
                        {p \in SalientOf(j) : sentences[j + 1][p + 1] \notin StopWords}

\* C7, witness: the output of two replicas is complete and a sentence has a
\* salient stop word and a salient word that is no stop word
C7_Witness ==
    /\ variant = "SC"
    /\ pc = "done"
    /\ dupe_factor = 2
    /\ \E j \in DOMAIN mask_poses_d :
          /\ \E p \in SalientOf(j) : sentences[j + 1][p + 1] \in StopWords
          /\ \E p \in SalientOf(j) : sentences[j + 1][p + 1] \notin StopWords

\* the entry e of a token tok is the one the draws d decide
Decided(e, tok, d) ==
    /\ e.label = tok
    /\ e.mask \in {"[MASK]", tok} \cup Range(Vocab)
    /\ Len(d) >= 1
    /\ IF d[1] < 80
       THEN e.mask = "[MASK]"
       ELSE /\ Len(d) >= 2
            /\ IF d[2] < 50
               THEN e.mask = tok
               ELSE /\ Len(d) = 3
                    /\ d[3] \in 0..(Len(Vocab) - 1)
                    /\ e.mask = Vocab[d[3] + 1]

\* C8: every masking entry is decided by the draws of the random source: a
\* first draw below 0.8 gives "[MASK]", else a second draw below 0.5 gives the
\* original token, else the vocabulary entry at the index drawn; its label is
\* the original token
C8_EntryDecidedByDraws ==
    (variant = "SC" /\ pc \in {"assemble", "done"}) =>
        /\ Len(draw_log) = Len(all_documents)
        /\ \A g \in 1..Len(all_documents) :
              /\ Len(draw_log[g]) = Len(all_documents[g])
              /\ \A n \in 1..Len(all_documents[g]) :
                    LET inst == all_documents[g][n]
                        log == draw_log[g][n].draws
                    IN  \A p \in MaskedPositions(inst) :
                            LET at == {x \in 1..Len(log) : log[x].pos = p}
                            IN  /\ Cardinality(at) = 1
                                /\ \A x \in at :
                                      Decided(inst.info[p + 1], inst.tokens[p + 1],
                                              log[x].draws)

\* C8, witness: the output holds an entry decided by one draw, one decided by
\* two and one decided by three, the first draws being 0.79 and 0.80
C8_Witness ==
    /\ variant = "SC"
    /\ pc = "done"
    /\ \A c \in 1..3 :
          \E g \in 1..Len(draw_log) : \E n \in 1..Len(draw_log[g]) :
              \E x \in 1..Len(draw_log[g][n].draws) :
                  /\ Len(draw_log[g][n].draws[x].draws) = c
                  /\ draw_log[g][n].draws[x].draws[1] = (IF c = 1 THEN 79 ELSE 80)

\* C9: forward returns dupe_factor * doc_num groups, the group at
\* rep * doc_num + d holding one instance per sentence of document d, in the
\* order of the document and with the tokens of the sentence
C9_GroupsReplicaMajor ==
    (variant = "SC" /\ pc = "done") =>
        /\ Len(all_documents) = dupe_factor * doc_num
        /\ \A r \in 0..(dupe_factor - 1) : \A d \in 0..(doc_num - 1) :
              LET group == all_documents[r * doc_num + d + 1]
              IN  /\ Len(group) = Cardinality(SensOfDoc(d))
                  /\ \A n \in 1..Len(group) :
                        group[n].tokens = sentences[FirstSen(d) + n]

\* C9, witness: two replicas of two documents are returned, the first
\* document having no sentence and the second two different ones
C9_Witness ==
    /\ variant = "SC"
    /\ pc = "done"
    /\ dupe_factor = 2
    /\ doc_num = 2
    /\ SensOfDoc(0) = {}
    /\ Cardinality(SensOfDoc(1)) = 2
    /\ sentences[1] # sentences[2]

\* C10, the part of it that holds: a sentence that is not retained is in the
\* output with no masking entry, and no sentence of a document without a
\* retained sentence is ever in the probe batch
C10_NotRetainedUnmasked ==
    variant = "SC" =>
        /\ pc = "done" =>
              \A g \in 1..Len(all_documents) :
                  \A j \in SensOfDoc(DocOfGroup(g)) \ RetainedOf(DocOfGroup(g)) :
                      /\ j - FirstSen(DocOfGroup(g)) + 1 \in 1..Len(all_documents[g])
                      /\ MaskedPositions(
                             all_documents[g][j - FirstSen(DocOfGroup(g)) + 1]) = {}
        /\ \A k \in 1..Len(masked_item_infos) :
              RetainedOf(sen_doc_ids[masked_item_infos[k].sen_doc_pos + 1]) # {}
        /\ \A k \in 1..Len(scored_batch) :
              RetainedOf(right_sen_doc_ids[scored_batch[k] + 1]) # {}

\* C10 as stated: the above, and documents without a retained sentence raise
\* no error: a run of one or more documents in which no sentence is retained
\* does not end in an exception
C10_NoRetainedSentenceNoError ==
    /\ C10_NotRetainedUnmasked
    /\ (variant = "SC" /\ doc_num >= 1 /\ right_sens = <<>>) => pc # "error"

\* C1, as stated: in SC.forward, ASC.forward and ModelGen.forward alike, every
\* position recorded as salient for a sentence (in ASC: for the text of a
\* document) is a position of that sentence: 0 <= p < len(tokens), in every
\* state of the run
C1_SalientPositionsInRange ==
    /\ variant \in {"SC", "ModelGen"} =>
          \A j \in DOMAIN mask_poses_d :
              \A p \in Range(mask_poses_d[j]) :
                  0 <= p /\ p < Len(sentences[j + 1])
    /\ variant = "ASC" =>
          \A d \in DOMAIN mask_poses_L :
              \A p \in mask_poses_L[d] :
                  0 <= p /\ p < Len(texts[d])

\* the number of tokens of the retained sentence the k-th element of the probe
\* batch is a prefix of
AliveLen(k) ==
    IF variant = "SC"
    THEN Len(right_sens[masked_item_infos[k].sen_right_id + 1])
    ELSE Len(right_sens[masked_sens[k].sen_right_id + 1].text)

\* C6, the round counter: a round of the probe loop that is followed by
\* another test of the loop condition adds one to the counter
C6_RoundCounterSteps ==
    [][(variant \in {"SC", "ASC"} /\ pc = "probe" /\ pc' = "probe")
          => mask_pos' = mask_pos + 1]_vars

\* C6, as stated for the states of the run: a sentence that is in the batch of
\* the round mask_pos has at least mask_pos + 1 tokens, so it has left the
\* batch after the round equal to its length minus one, and the probe loop is
\* left only when no sentence is in the batch
C6_ProbeLoopTerminates ==
    variant \in {"SC", "ASC"} =>
        /\ pc = "probe" =>
              \A k \in 1..Len(masked_sens) : mask_pos <= AliveLen(k) - 1
        /\ pc \in {"assemble", "done", "error"} => Len(masked_sens) = 0

RECURSIVE Flatten(_)
\* the concatenation of a sequence of sequences
Flatten(ss) == IF ss = <<>> THEN <<>> ELSE Head(ss) \o Flatten(Tail(ss))

\* the draws behind the entries of the g-th group, one sequence of draws per
\* entry, in the order create_mask made them
GroupEntryDraws(g) ==
    Flatten([n \in 1..Len(draw_log[g]) |->
                [x \in 1..Len(draw_log[g][n].draws) |->
                    draw_log[g][n].draws[x].draws]])
\* the same for the whole output so far, replica after replica
AllEntryDraws == Flatten([g \in 1..Len(draw_log) |-> GroupEntryDraws(g)])
\* the replica the g-th group belongs to, g counted from 1
ReplicaOfGroup(g) == (g - 1) \div doc_num
\* the draws of the entry at position p of the n-th instance of group g
DrawsAt(g, n, p) ==
    LET log == draw_log[g][n].draws
    IN  log[CHOOSE x \in 1..Len(log) : log[x].pos = p].draws

MaskClass(j) == {p \in 0..(Len(preds[j + 1]) - 1) : preds[j + 1][p + 1][1] = 1}
\* the logit the token classifier gave position p of sentence j
LogitOf(j, p) == preds[j + 1][p + 1][2]

\* C12: in ModelGen.forward the positions selected for a sentence are
\* positions predicted as class 1, max(1, floor(mask_rate * len(sentence))) of
\* them or all if there are fewer, listed by descending logit and none with a
\* lower logit than one left out; and they come from the one scoring pass:
\* there is no selection or probe phase and nothing but the sentences is scored
C12_ModelGenSelection ==
    variant = "ModelGen" =>
        /\ \A j \in DOMAIN mask_poses_d :
              LET sel == mask_poses_d[j]
                  quota == Max(1, (mask_rate[1] * Len(sentences[j + 1])) \div mask_rate[2])
              IN  /\ Range(sel) \subseteq MaskClass(j)
                  /\ Len(sel) = Min(quota, Cardinality(MaskClass(j)))
                  /\ Cardinality(Range(sel)) = Len(sel)
                  /\ \A k \in 1..(Len(sel) - 1) :
                        LogitOf(j, sel[k]) >= LogitOf(j, sel[k + 1])
                  /\ \A p \in Range(sel) : \A q \in MaskClass(j) \ Range(sel) :
                        LogitOf(j, p) >= LogitOf(j, q)
        /\ pc \notin {"select", "probe"}
        /\ mask_sens_scores = <<>>
        /\ DOMAIN model \subseteq
               {MG_convert_examples_to_features(sentences[k]).input_ids :
                   k \in 1..Len(sentences)}

\* C12, witness: forward has returned; of a sentence with two positions of
\* class 1 only the second, with the higher logit, is selected, and nothing is
\* selected of another sentence, whose only position is of class 0
C12_Witness ==
    /\ variant = "ModelGen"
    /\ pc = "done"
    /\ \E j \in DOMAIN mask_poses_d :
          /\ MaskClass(j) = {0, 1}
          /\ LogitOf(j, 0) < LogitOf(j, 1)
          /\ mask_poses_d[j] = <<1>>
    /\ \E j \in DOMAIN mask_poses_d :
          /\ Len(preds[j + 1]) = 1
          /\ MaskClass(j) = {}
          /\ mask_poses_d[j] = <<>>

\* the feature f holds [CLS], the tokens toks, [SEP] and padding up to
\* max_seq_length, with the mask 1 on all but the padding
WellFormed(f, toks) ==
    /\ Len(f.input_ids) = max_seq_length
    /\ Len(f.input_mask) = max_seq_length
    /\ f.input_ids = <<"[CLS]">> \o toks \o <<"[SEP]">>
                        \o [k \in 1..(max_seq_length - Len(toks) - 2) |-> "[PAD]"]
    /\ \A k \in 1..max_seq_length : f.input_mask[k] = (IF k <= Len(toks) + 2 THEN 1 ELSE 0)

\* C13: the conversions of SC and of ModelGen raise no assertion error and
\* return one feature per token sequence, whose input_ids and input_mask (and
\* segment_ids in SC) have max_seq_length elements and hold the first
\* max_seq_length - 2 tokens, all of them if there are no more, between [CLS]
\* and [SEP]
C13_FeaturesHaveMaxSeqLength ==
    variant \in {"SC", "ModelGen"} =>
        /\ error # "AssertionError"
        /\ \A k \in 1..Len(eval_features) :
              /\ Len(eval_features[k].input_ids) = max_seq_length
              /\ Len(eval_features[k].input_mask) = max_seq_length
              /\ variant = "SC" => Len(eval_features[k].segment_ids) = max_seq_length
        /\ pc = "converted" =>
              /\ Len(eval_features) = 1
              /\ WellFormed(eval_features[1],
                            SubSeq(sentences[1], 1,
                                   Min(Len(sentences[1]), max_seq_length - 2)))

\* C13, witness: a sequence of more than max_seq_length - 2 tokens has been
\* converted by SC with max_seq_length = 2
C13_Witness ==
    /\ variant = "SC"
    /\ pc = "converted"
    /\ max_seq_length = 2
    /\ Len(sentences[1]) > 2
    /\ eval_features[1].input_ids = <<"[CLS]", "[SEP]">>

\* C14, the part of it that holds: no feature the conversion of ASC appends
\* has a length other than max_seq_length
C14_NoAscFeatureOfOtherLength ==
    variant = "ASC" =>
        \A k \in 1..Len(eval_features) :
            /\ Len(eval_features[k].input_ids) = max_seq_length
            /\ Len(eval_features[k].input_mask) = max_seq_length
            /\ Len(eval_features[k].segment_ids) = max_seq_length

\* C14 as stated: the above, and the length assertions of the conversion of
\* ASC hold for every pair of a text and an aspect, so every item is
\* converted into a feature
C14_AscFeaturesHaveMaxSeqLength ==
    /\ C14_NoAscFeatureOfOtherLength
    /\ variant = "ASC" =>
          /\ error # "AssertionError"
          /\ pc = "converted" => Len(eval_features) = Len(sentences)

DrawPairs == (0..99) \X (0..99)
\* how many of them lead to the branch b
PairsTo(b) == Cardinality({d \in DrawPairs : Branch(d[1], d[2]) = b})

\* C16: of the equally likely pairs of draws, eight in ten make create_mask
\* put the mask marker, one in ten the original token and one in ten a token
\* drawn from the vocabulary; and every entry create_mask made holds what the
\* branch of its draws says
C16_MaskingDistribution ==
    /\ 10 * PairsTo("mask") = 8 * Cardinality(DrawPairs)
    /\ 10 * PairsTo("keep") = Cardinality(DrawPairs)
    /\ 10 * PairsTo("random") = Cardinality(DrawPairs)
    /\ pc = "masked" =>
          \A x \in 1..Len(draw_log[1][1].draws) :
              LET log == draw_log[1][1].draws[x]
                  e == all_documents[1][1].info[log.pos + 1]
                  d == log.draws
                  b == Branch(d[1], IF Len(d) >= 2 THEN d[2] ELSE 0)
              IN  /\ b = "mask" => (Len(d) = 1 /\ e.mask = "[MASK]")
                  /\ b = "keep" => (Len(d) = 2 /\ e.mask = sentences[1][log.pos + 1])
                  /\ b = "random" => (Len(d) = 3 /\ e.mask = Vocab[d[3] + 1])

\* C16, witness: one call of create_mask has made an entry that keeps the
\* token and an entry that holds a token drawn from the vocabulary
C16_Witness ==
    /\ pc = "masked"
    /\ Len(draw_log[1][1].draws) = 2
    /\ \E x, y \in 1..2 :
          /\ Len(draw_log[1][1].draws[x].draws) = 2
          /\ Len(draw_log[1][1].draws[y].draws) = 3
          /\ all_documents[1][1].info[draw_log[1][1].draws[y].pos + 1].mask
                 # "[MASK]"


\* the salient positions recorded so far for the k-th sentence of the batch
ProbeSalient(k) == SalientOf(masked_item_infos[k].sen_doc_pos)

\* the tokens of sen at the positions below r that are not in S, in order
RECURSIVE NotSalientBelow(_, _, _)
NotSalientBelow(sen, S, r) ==
    IF r = 0 \/ sen = <<>>
    THEN <<>>
    ELSE LET rest == NotSalientBelow(sen, S, r - 1)
         IN  IF r - 1 \in S \/ r > Len(sen) THEN rest ELSE Append(rest, sen[r])

\* the sentence the k-th element of the batch is a prefix of
ProbedSentence(k) == right_sens[masked_item_infos[k].sen_right_id + 1]

\* C17: at the start of the round mask_pos of the SC probe, the prefix of
\* every sentence in the batch is the sentence's tokens at the positions below
\* mask_pos that were not judged salient, in order, followed by the token at
\* mask_pos
C17_PrefixComposition ==
    (variant = "SC" /\ pc = "probe") =>
        \A k \in 1..Len(masked_sens) :
            /\ mask_pos < Len(ProbedSentence(k))
            /\ masked_sens[k] =
                   Append(NotSalientBelow(ProbedSentence(k), ProbeSalient(k), mask_pos),
                          ProbedSentence(k)[mask_pos + 1])

\* C17, for the sentences that have a token: the composition of the prefix
C17_PrefixOfNonEmpty ==
    (variant = "SC" /\ pc = "probe") =>
        \A k \in 1..Len(masked_sens) :
            ProbedSentence(k) # <<>> =>
                /\ mask_pos < Len(ProbedSentence(k))
                /\ masked_sens[k] =
                       Append(NotSalientBelow(ProbedSentence(k), ProbeSalient(k),
                                              mask_pos),
                              ProbedSentence(k)[mask_pos + 1])

\* the place in the batch before the round of the sentence that is at the
\* place k after it
PlaceBefore(k) ==
    CHOOSE j \in 1..Len(masked_sens) :
        masked_item_infos[j].sen_right_id = masked_item_infos'[k].sen_right_id

\* C17, from one round to the next: the prefix of a sentence that stays in
\* the batch keeps its length when the token under test was judged salient
\* and is one token longer when it was kept
C17_PrefixLengthSteps ==
    [][(variant = "SC" /\ pc = "probe" /\ pc' = "probe") =>
          \A k \in 1..Len(masked_sens') :
              LET j == PlaceBefore(k)
                  salient == mask_pos \in ProbeSalient(k)'
              IN  /\ salient => Len(masked_sens'[k]) = Len(masked_sens[j])
                  /\ ~salient => Len(masked_sens'[k]) = Len(masked_sens[j]) + 1]_vars


\* C18 as stated: from each round of the SC probe to the next, the prefix of
\* every sentence that stays in the batch is exactly one token longer
C18_PrefixLengthGrowsByOne ==
    [][(variant = "SC" /\ pc = "probe" /\ pc' = "probe") =>
          \A k \in 1..Len(masked_sens') :
              Len(masked_sens'[k]) = Len(masked_sens[PlaceBefore(k)]) + 1]_vars

\* C18, amended: from each round of the SC probe to the next, the position
\* under test goes up by exactly one, and the prefix of a sentence that stays
\* in the batch is one token longer only when the token tested in the round
\* was not judged salient; when it was, the prefix has the length it had
C18_TestedPositionGrowsByOne ==
    [][(variant = "SC" /\ pc = "probe" /\ pc' = "probe") =>
          /\ mask_pos' = mask_pos + 1
          /\ \A k \in 1..Len(masked_sens') :
                 LET before == masked_sens[PlaceBefore(k)]
                     after == masked_sens'[k]
                 IN  /\ after[Len(after)] = ProbedSentence(k)'[mask_pos' + 1]
                     /\ Len(after) - Len(before) =
                            (IF mask_pos \in ProbeSalient(k)' THEN 0 ELSE 1)]_vars

\* C18, witness: the second round starts with a one-token prefix of a
\* sentence whose first token was judged salient in the first round
C18_Witness ==
    /\ variant = "SC"
    /\ pc = "probe"
    /\ mask_pos = 1
    /\ \E k \in 1..Len(masked_sens) :
           /\ 0 \in ProbeSalient(k)
           /\ Len(masked_sens[k]) = 1
           /\ masked_sens[k] = <<ProbedSentence(k)[2]>>


\* the list s is strictly increasing
StrictlyIncreasing(s) == \A x, y \in 1..Len(s) : x < y => s[x] < s[y]

\* C19: in the SC probe the salient list of a sentence only grows, by the
\* position under test and at the end, so it is strictly increasing, and the
\* membership of a position below the one under test does not change
C19_SalientListOnlyGrows ==
    [][variant = "SC" /\ pc \in {"probe", "assemble", "done", "error"} =>
          /\ DOMAIN mask_poses_d \subseteq DOMAIN mask_poses_d'
          /\ \A j \in DOMAIN mask_poses_d' :
                 LET old == IF j \in DOMAIN mask_poses_d THEN mask_poses_d[j] ELSE <<>>
                     new == mask_poses_d'[j]
                 IN  /\ new = old \/ (pc = "probe" /\ new = Append(old, mask_pos))
                     /\ StrictlyIncreasing(new)
                     /\ \A p \in 0..MaxLen :
                            (p < mask_pos \/ pc # "probe") =>
                                (p \in Range(old) <=> p \in Range(new))]_vars

\* C19, witness: a sentence has two positions in its salient list, added in
\* the rounds 0 and 1
C19_Witness ==
    /\ variant = "SC"
    /\ pc = "probe"
    /\ mask_pos = 2
    /\ \E j \in DOMAIN mask_poses_d : mask_poses_d[j] = <<0, 1>>


\* the ids (sen_right_id) of the sentences in the batch of the SC probe
BatchIds == {masked_item_infos[k].sen_right_id : k \in 1..Len(masked_sens)}

\* the number of positions below r that the sentences of the list have
RECURSIVE PositionsBelow(_, _)
PositionsBelow(sens, r) ==
    IF sens = <<>>
    THEN 0
    ELSE Min(Len(sens[Len(sens)]), r) + PositionsBelow(Pop(sens), r)

\* the prefixes scored in the rounds below r when a sentence without a token
\* is scored once, in round 0
RECURSIVE RoundsBelow(_, _)
RoundsBelow(sens, r) ==
    IF sens = <<>>
    THEN 0
    ELSE Min(Max(Len(sens[Len(sens)]), 1), r) + RoundsBelow(Pop(sens), r)

\* C20: a retained sentence with L >= 1 tokens is in the batch of the SC probe
\* in the rounds 0 .. L - 1 and in no other, once in each; every prefix
\* scored tests a position of a retained sentence that was not tested before,
\* so the prefixes scored are at most, and when the probe is over exactly,
\* as many as the retained sentences have tokens
C20_EachPositionScoredOnce ==
    variant = "SC" =>
        /\ pc = "probe" =>
              /\ \A k \in 1..Len(right_sens) :
                     Len(right_sens[k]) >= 1 =>
                         (k - 1 \in BatchIds <=> mask_pos < Len(right_sens[k]))
              /\ Cardinality(BatchIds) = Len(masked_sens)
              /\ probe_scored = PositionsBelow(right_sens, mask_pos)
        /\ pc \in {"assemble", "done"} => probe_scored = SumLen(right_sens)
        /\ probe_scored <= SumLen(right_sens)

\* C20, with the sentences that have no token counted: such a sentence is
\* scored once, in round 0
C20_CountWithEmptySentences ==
    variant = "SC" =>
        /\ pc = "probe" =>
              /\ \A k \in 1..Len(right_sens) :
                     Len(right_sens[k]) >= 1 =>
                         (k - 1 \in BatchIds <=> mask_pos < Len(right_sens[k]))
              /\ Cardinality(BatchIds) = Len(masked_sens)
              /\ probe_scored = RoundsBelow(right_sens, mask_pos)
        /\ pc \in {"assemble", "done"} => probe_scored = SumLen(right_sens)
        /\ (pc = "error" /\ error = "IndexError") =>
               probe_scored = RoundsBelow(right_sens, mask_pos + 1)

\* C20, from one round to the next: no sentence enters the batch
C20_BatchNeverGrows ==
    [][(variant = "SC" /\ pc = "probe" /\ pc' = "probe") =>
          /\ BatchIds' \subseteq BatchIds
          /\ Len(masked_sens') <= Len(masked_sens)]_vars


\* C21: the rightly classified sentences of one document that have the same
\* probability of the ground-truth label are ranked in document order: of two
\* such sentences that are both retained the earlier one is listed first, and
\* one that is left out comes later in the document than every retained one
\* of the same probability
C21_TiesKeepDocumentOrder ==
    variant = "SC" =>
        \A d \in 0..(doc_num - 1) :
            Selected(d) =>
                /\ \A k1, k2 \in RetainedAt(d) :
                       (k1 < k2 /\ right_scores[k1] = right_scores[k2]) =>
                           right_sen_doc_poses[k1] < right_sen_doc_poses[k2]
                /\ \A j \in SensOfDoc(d), r \in RetainedOf(d) :
                       (/\ RightlyClassified(j)
                        /\ j \notin RetainedOf(d)
                        /\ TruthScore(j) = TruthScore(r)) => r < j

\* C21, witness: the cut falls between two rightly classified sentences of
\* one document that have the same probability, and the first is retained
C21_Witness ==
    /\ variant = "SC"
    /\ Selected(0)
    /\ SensOfDoc(0) = {0, 1}
    /\ RightlyClassified(0)
    /\ RightlyClassified(1)
    /\ TruthScore(0) = TruthScore(1)
    /\ RetainedOf(0) = {0}


\* the (text, aspect) pairs from the j-th on that the classifier gave their
\* own label, as indices into sentences
RECURSIVE RightPairsFrom(_)
RightPairsFrom(j) ==
    IF j >= Len(sentences) THEN <<>>
    ELSE (IF sens_preds[j + 1] = sentences[j + 1].label THEN <<j>> ELSE <<>>)
             \o RightPairsFrom(j + 1)

\* the places in right_sens of the rightly classified pairs of document d
RightPairsOf(d) == {k \in 1..Len(right_sens) : right_sen_doc_ids[k] = d}

\* the prefix test of the round just completed passed for the k-th pair of
\* its batch
PrefixTestPassed(k) ==
    LET id == scored_batch[k]
        label == right_sens[id + 1].label
    IN  right_scores[id + 1] - ScoreOf(mask_sens_scores[k], label) < threshold

\* C22, the probe: the pairs probed are the rightly classified non-conflict
\* pairs, and a completed round adds the position under test to the set of a
\* document exactly when the prefix test passed for one of its pairs
C22_RoundAddsToDocumentSet ==
    (variant = "ASC" /\ pc = "probe" /\ pc' = "probe" /\ mask_pos' = mask_pos + 1) =>
        \A d \in 0..(doc_num - 1) :
            mask_poses_L'[d + 1] =
                mask_poses_L[d + 1] \cup
                    {p \in {mask_pos} :
                        \E k \in 1..Len(scored_batch') :
                            /\ right_sen_doc_ids[scored_batch'[k] + 1] = d
                            /\ PrefixTestPassed(k)'}

\* C22, the sets and the output: the pairs probed are the rightly classified
\* ones of the non-conflict pairs; a document without such a pair has the
\* empty set; every group of the output is one instance of the document's
\* full text, masked at the positions of the document's set whose token is no
\* stop word; every replica has one group per document
C22_OutputFromDocumentSet ==
    (variant = "ASC" /\ pc \in {"probe", "assemble", "done"}) =>
        /\ Len(right_sens) = Len(RightPairsFrom(0))
        /\ \A k \in 1..Len(right_sens) :
               /\ right_sens[k] = sentences[RightPairsFrom(0)[k] + 1]
               /\ right_sen_doc_ids[k] = sen_doc_ids[RightPairsFrom(0)[k] + 1]
               /\ right_sens[k].label \in 0..(Len(LabelList) - 1)
        /\ pc = "probe" /\ mask_pos = 0 =>
               [k \in 1..Len(masked_sens) |-> masked_sens[k].sen_right_id] =
                   [k \in 1..Len(right_sens) |-> k - 1]
        /\ \A d \in 0..(doc_num - 1) :
               RightPairsOf(d) = {} => mask_poses_L[d + 1] = {}
        /\ pc \in {"assemble", "done"} =>
               \A g \in 1..Len(all_documents) :
                   LET d == DocOfGroup(g)
                   IN  /\ Len(all_documents[g]) = 1
                       /\ all_documents[g][1].tokens = texts[d + 1]
                       /\ MaskedPositions(all_documents[g][1]) =
                              {p \in mask_poses_L[d + 1] :
                                  texts[d + 1][p + 1] \notin StopWords}
                       /\ RightPairsOf(d) = {} =>
                              MaskedPositions(all_documents[g][1]) = {}
        /\ pc = "done" => Len(all_documents) = dupe_factor * doc_num

\* C22: in ASC.forward the salient set of a document is the union over its
\* rightly classified non-conflict pairs of the positions whose prefix test
\* passed, every replica holds one instance per document masked from that
\* set, and a document without a rightly classified pair gets no entry
C22_DocumentSetIsUnionOverPairs ==
    /\ []C22_OutputFromDocumentSet
    /\ [][C22_RoundAddsToDocumentSet]_vars

\* C22, witness: in the round just completed two pairs of one document were
\* probed, the test passed for one and not for the other, and the position
\* is in the document's set
C22_Witness ==
    /\ variant = "ASC"
    /\ pc = "probe"
    /\ mask_pos >= 1
    /\ \E a, b \in 1..Len(scored_batch) :
           /\ a # b
           /\ right_sen_doc_ids[scored_batch[a] + 1] =
                  right_sen_doc_ids[scored_batch[b] + 1]
           /\ PrefixTestPassed(a)
           /\ ~PrefixTestPassed(b)
           /\ mask_pos - 1 \in mask_poses_L[right_sen_doc_ids[scored_batch[a] + 1] + 1]


\* what the SC probe did, once the ASC probe runs on the same tokens
ScProbe == first_call[1]

\* the ASC probe is over
AscProbeOver ==
    variant = "ASC" /\ ((pc = "probe" /\ Len(masked_sens) = 0) \/ pc = "error")

\* the two probes were given the same scores in their first n rounds
SameScores(n) ==
    \A r \in 1..n : probe_log[r].scores = ScProbe.log[r].scores

\* C23: on the same tokens, with the same full score, the same threshold and
\* the same score in every round, the ASC probe scores the same prefix as the
\* SC probe in every round, ends in the same round in the same way, and has
\* judged the same positions salient
C23_AscProbeIsScProbe ==
    (variant = "ASC" /\ first_call # <<>>) =>
        LET n == Len(probe_log)
            m == Len(ScProbe.log)
        IN  SameScores(Min(n, m)) =>
                /\ n <= m
                /\ \A r \in 1..n : probe_log[r].sens = ScProbe.log[r].sens
                /\ AscProbeOver =>
                       /\ n = m
                       /\ mask_pos = ScProbe.rounds
                       /\ error = ScProbe.error
                       /\ mask_poses_L[1] = Range(ScProbe.salient)

\* C23, witness: both probes ran three rounds on a sentence of three tokens
\* with the same scores, and the middle token alone was judged salient
C23_Witness ==
    /\ first_call # <<>>
    /\ AscProbeOver
    /\ error = "none"
    /\ Len(probe_log) = 3
    /\ SameScores(3)
    /\ mask_poses_L[1] = {1}


\* the indices into sentences of the pairs of document d that the classifier
\* gave their own label
RightlyClassifiedPairs(d) ==
    {j \in 0..(Len(sentences) - 1) :
        sen_doc_ids[j + 1] = d /\ sens_preds[j + 1] = sentences[j + 1].label}

\* C24: in ASC.forward the pairs of a document that are retained and probed
\* are at most the top_sen_rate fraction of its rightly classified pairs, one
\* at least, and are those of the highest probability
C24_AscTopFractionRetained ==
    (variant = "ASC" /\ pc \in {"probe", "assemble", "done"}) =>
        \A d \in 0..(doc_num - 1) :
            LET k == Cardinality(RightlyClassifiedPairs(d))
            IN  /\ k >= 1 =>
                       /\ Cardinality(RightPairsOf(d)) >= 1
                       /\ Cardinality(RightPairsOf(d)) <=
                              Max(1, IntTimes(top_sen_rate, k))
                /\ k = 0 => RightPairsOf(d) = {}

\* C24, what ASC.forward does: every rightly classified pair is retained
C24_AscRetainsEveryRightPair ==
    (variant = "ASC" /\ pc \in {"probe", "assemble", "done"}) =>
        \A d \in 0..(doc_num - 1) :
            Cardinality(RightPairsOf(d)) = Cardinality(RightlyClassifiedPairs(d))


\* a call of create_mask of either class returns
CreateMaskReturns == pc = "create_mask" /\ pc' = "masked"

\* C25: a call of create_mask of SC or of ModelGen returns what the
\* create_mask of the other class returns for the same positions, the same
\* sentence and the same state of the random source, and leaves the random
\* source in the same state
C25_SameBuilderInBothClasses ==
    [][CreateMaskReturns =>
          LET sc == SC_create_mask(MaskPosesOf(0), sentences[1], rng)
              mg == MG_create_mask(MaskPosesOf(0), sentences[1], rng)
          IN  /\ all_documents'[1][1].info = sc.masked_info
              /\ all_documents'[1][1].info = mg.masked_info
              /\ rng' = sc.rng
              /\ rng' = mg.rng]_vars

\* C25, where no position to mask holds a stop word: the two classes return
\* the same masking info from the same draws
C25_SameBuilderOffStopWords ==
    [][(CreateMaskReturns
          /\ \A p \in Range(MaskPosesOf(0)) : sentences[1][p + 1] \notin StopWords) =>
          LET sc == SC_create_mask(MaskPosesOf(0), sentences[1], rng)
              mg == MG_create_mask(MaskPosesOf(0), sentences[1], rng)
          IN  /\ all_documents'[1][1].info = sc.masked_info
              /\ all_documents'[1][1].info = mg.masked_info
              /\ rng' = sc.rng
              /\ rng' = mg.rng]_vars


\* the token under test, the last of the prefix, is in the input the
\* classifier is given for the prefix
TestedTokenIsScored(prefix) ==
    LET f == SC_convert_examples_to_features(prefix)
        n == Len(prefix)
    IN  n >= 1 => (n + 1 <= Len(f.input_ids) /\ f.input_ids[n + 1] = prefix[n]
                   /\ f.input_mask[n + 1] = 1)

\* C26: in every round of the SC probe the token under test is part of the
\* input that is scored for every sentence of the batch
C26_TestedTokenIsScored ==
    (variant = "SC" /\ pc = "probe") =>
        \A k \in 1..Len(masked_sens) : TestedTokenIsScored(masked_sens[k])

\* C26, for the sentences of at most max_seq_length - 2 tokens
C26_TestedTokenOfShortSentence ==
    (variant = "SC" /\ pc = "probe") =>
        \A k \in 1..Len(masked_sens) :
            Len(ProbedSentence(k)) <= max_seq_length - 2 =>
                TestedTokenIsScored(masked_sens[k])



\* C27, the lists: the retained sentences are the full sentences, and the
\* tokens of every output instance are the full sentence (SC) or the full
\* text of the document (ASC)
C27_FullSentencesEverywhere ==
    /\ (variant = "SC" /\ pc \in {"probe", "assemble", "done", "error"}) =>
           \A k \in 1..Len(right_sens) :
               right_sens[k] = sentences[right_sen_doc_poses[k] + 1]
    /\ (variant = "SC" /\ pc \in {"assemble", "done"}) =>
           \A g \in 1..Len(all_documents) :
               \A n \in 1..Len(all_documents[g]) :
                   all_documents[g][n].tokens =
                       sentences[FirstSen(DocOfGroup(g)) + n]
    /\ (variant = "ASC" /\ pc \in {"probe", "assemble", "done", "error"}) =>
           /\ \A j \in 1..Len(sentences) :
                  sentences[j].text = texts[sen_doc_ids[j] + 1]
           /\ \A k \in 1..Len(right_sens) :
                  right_sens[k].text = texts[right_sen_doc_ids[k] + 1]
    /\ (variant = "ASC" /\ pc \in {"assemble", "done"}) =>
           \A g \in 1..Len(all_documents) :
               \A n \in 1..Len(all_documents[g]) :
                   all_documents[g][n].tokens = texts[DocOfGroup(g) + 1]

\* C27, the steps: from the start of the probe on no step changes a sentence,
\* a text or a retained sentence
C27_ProbeLeavesSentences ==
    (variant \in {"SC", "ASC"} /\ pc \in {"probe", "assemble"}) =>
        /\ sentences' = sentences
        /\ texts' = texts
        /\ right_sens' = right_sens

PrefixOf(k) == IF variant = "SC" THEN masked_sens[k] ELSE masked_sens[k].text

\* the tokens of the k-th retained sentence (SC) or pair (ASC)
RetainedTokens(k) == IF variant = "SC" THEN right_sens[k] ELSE right_sens[k].text

\* C28: in the SC and ASC probes every prefix that is tested holds a token,
\* so the pop of a salient token never fails and no probe ends in an
\* IndexError, whatever the retained sentences are
C28_NoPopFromEmptyPrefix ==
    variant \in {"SC", "ASC"} =>
        /\ pc = "probe" => \A k \in 1..Len(masked_sens) : PrefixOf(k) # <<>>
        /\ right_sens # <<>> => ~(pc = "error" /\ error = "IndexError")

\* C28, when every retained sentence has a token: every prefix tested holds
\* a token and no probe ends in an IndexError
C28_NoPopFromEmptyPrefixWithTokens ==
    (variant \in {"SC", "ASC"}
       /\ \A k \in 1..Len(right_sens) : RetainedTokens(k) # <<>>) =>
        /\ pc = "probe" => \A k \in 1..Len(masked_sens) : PrefixOf(k) # <<>>
        /\ right_sens # <<>> => ~(pc = "error" /\ error = "IndexError")

====
